---- MODULE Spec2Model ----
(***************************************************************************)
(* Request-boundary security core of promptexify: the CSRF guard           *)
(* (lib/security/csp.ts), the middleware pipeline (middleware.ts) with the *)
(* API rate limiter, and the server actions behind withCSRFProtection.     *)
(***************************************************************************)
EXTENDS Integers, Sequences, FiniteSets, TLC

VARIABLES
    isProduction,   \* process.env.NODE_ENV === "production"
    cookies,        \* the CSRF cookies of the browser session: primary, backup, debug
    ctx,            \* what next/headers cookies() allows in the current request
    lastOp,         \* the last CSRFProtection call: arguments, result, cookies before
    now,            \* Date.now(), in ticks of TickMs milliseconds
    buckets,        \* rate-limit bucket per client identifier
    mw,             \* the last middleware pass: the request and the response built
    act,            \* the last server action call: gate decision and database write
    pass,           \* the last middleware pass with its nonce and a stage that may throw
    env,            \* process.env: NODE_ENV and the optional origin variables
    hdr,            \* the last header bundle SecurityHeaders composed
    crypto,         \* what the runtime's Web Crypto API supports
    db,             \* the post table: one row, with its favorites and bookmarks
    dataCache,      \* the Next.js data cache entries of the followed function
    memo,           \* the Map of the followed function's memoize wrapper
    ev,             \* the last cache event: a read or a write, and its effects
    fn,             \* the cached function the behaviour follows
    writes,         \* number of database writes so far
    api,            \* the last request to GET / HEAD /api/posts/[id] and its response
    keys,           \* the last two calls given to a key generator, and their keys
    mod,            \* the approve and reject calls in progress, per request
    store,          \* the post's media rows and its files in object storage
    slugs,          \* the slug column of the post table and the calls writing it
    grid,           \* the InfinitePostGrid component and its requests in flight
    mz,             \* a memoize wrapper's Map and the promises of its calls
    cs              \* cacheStore: the store selected, its entries, its clock

\* the state of the CSRF guard, the middleware and the server action gate
core == <<isProduction, cookies, ctx, lastOp, now, buckets, mw, act>>
\* the state of the nonce pass and of the header composer
\* the state of the cached reads and of the post writes
cacheVars == <<db, dataCache, memo, ev, fn, writes>>
\* the state of the routes, components and stores that follow
rest == <<api, keys, mod, slugs, grid, mz, cs>>
more == <<crypto, cacheVars, rest, store>>
ext == <<pass, env, hdr, more>>
vars == <<core, ext>>

(***************************************************************************)
(* Values                                                                  *)
(***************************************************************************)
\* null / undefined of the source
Null == "NULL"
\* a cookie that the request does not carry
Absent == "ABSENT"
\* number of distinct values generateToken() can return in the model
NumTokens == 2
\* generateToken(): one of these non-empty base64url strings
TokenNames == <<"t1", "t2", "t3", "t4", "t5">>
GenTokens == {TokenNames[i] : i \in 1..NumTokens}
\* a string no generateToken() call returns (forged or stale)
Forged == "forged"
\* what a client can put in a header, a form field or a cookie
Submittable == GenTokens \cup {Forged, ""}
CookieNames == {"primary", "backup", "debug"}
\* cookies() of next/headers: "rw" in a server action or route handler,
\* "ro" where cookies can be read but set/delete throw, "none" where the
\* call itself throws (no request scope)
Contexts == {"rw", "ro", "none"}

NoCookies == [n \in CookieNames |-> Absent]

\* a boolean result as recorded in the history variables
BoolStr(b) == IF b THEN "true" ELSE "false"

(***************************************************************************)
(* CSRFProtection (lib/security/csp.ts)                                    *)
(***************************************************************************)
\* cookieStore.get(name)?.value || null
CookieValue(ck, name) ==
    IF ck[name] = Absent \/ ck[name] = "" THEN Null ELSE ck[name]

\* setToken: throws unless the store is writable; writes primary, backup and,
\* outside production, debug
setToken(ck, cx, token) ==
    IF cx # "rw"
    THEN [threw |-> TRUE, cookies |-> ck]
    ELSE [threw |-> FALSE,
          cookies |-> [primary |-> token,
                       backup  |-> token,
                       debug   |-> IF ~isProduction THEN token ELSE ck["debug"]]]

\* getTokenFromCookie reading the backup cookie first
getTokenFromCookie_BackupFirst(ck, cx) ==
    IF cx = "none" THEN Null
    ELSE IF CookieValue(ck, "backup") # Null THEN CookieValue(ck, "backup")
    ELSE IF CookieValue(ck, "primary") # Null THEN CookieValue(ck, "primary")
    ELSE IF ~isProduction THEN CookieValue(ck, "debug")
    ELSE Null

\* getTokenFromCookie: primary, then backup, then (outside production) debug;
\* null when cookies() throws
getTokenFromCookie(ck, cx) ==
    IF cx = "none" THEN Null
    ELSE IF CookieValue(ck, "primary") # Null THEN CookieValue(ck, "primary")
    ELSE IF CookieValue(ck, "backup") # Null THEN CookieValue(ck, "backup")
    ELSE IF ~isProduction THEN CookieValue(ck, "debug")
    ELSE Null

\* timingSafeEqual that accepts every pair
timingSafeEqual_Always(a, b) == TRUE

\* timingSafeEqual: the HMAC-SHA256 digests of the two strings under one key
\* are byte-equal exactly when the strings are
timingSafeEqual(a, b) == a = b

\* validateToken whose recovery path accepts the request
validateToken_RecoveryPasses(ck, cx, submitted, newToken) ==
    IF submitted = Null \/ submitted = ""
    THEN [result |-> FALSE, cookies |-> ck]
    ELSE IF getTokenFromCookie(ck, cx) = Null
    THEN [result |-> TRUE, cookies |-> setToken(ck, cx, newToken).cookies]
    ELSE [result |-> timingSafeEqual(submitted, getTokenFromCookie(ck, cx)),
          cookies |-> ck]

\* validateToken that rotates the stored token after a successful match
validateToken_Rotates(ck, cx, submitted, newToken) ==
    IF submitted = Null \/ submitted = ""
    THEN [result |-> FALSE, cookies |-> ck]
    ELSE IF getTokenFromCookie(ck, cx) = Null
    THEN [result |-> FALSE, cookies |-> setToken(ck, cx, newToken).cookies]
    ELSE [result |-> timingSafeEqual(submitted, getTokenFromCookie(ck, cx)),
          cookies |-> IF timingSafeEqual(submitted, getTokenFromCookie(ck, cx))
                      THEN setToken(ck, cx, newToken).cookies ELSE ck]

\* validateToken: false on a null/empty submission; with no stored token it
\* stores newToken (generateToken()) and still returns false, also when
\* setToken throws; otherwise the comparison's result
validateToken(ck, cx, submitted, newToken) ==
    IF submitted = Null \/ submitted = ""
    THEN [result |-> FALSE, cookies |-> ck]
    ELSE IF getTokenFromCookie(ck, cx) = Null
    THEN [result |-> FALSE, cookies |-> setToken(ck, cx, newToken).cookies]
    ELSE [result |-> timingSafeEqual(submitted, getTokenFromCookie(ck, cx)),
          cookies |-> ck]

\* getOrCreateToken returning the new token without storing it
getOrCreateToken_NoStore(ck, cx, newToken, fallbackToken) ==
    IF getTokenFromCookie(ck, cx) # Null
    THEN [token |-> getTokenFromCookie(ck, cx), cookies |-> ck]
    ELSE [token |-> newToken, cookies |-> ck]

\* getOrCreateToken: the stored token, else a new one stored with setToken;
\* when setToken throws, an unpersisted fallback token
getOrCreateToken(ck, cx, newToken, fallbackToken) ==
    IF getTokenFromCookie(ck, cx) # Null
    THEN [token |-> getTokenFromCookie(ck, cx), cookies |-> ck]
    ELSE IF setToken(ck, cx, newToken).threw
    THEN [token |-> fallbackToken, cookies |-> ck]
    ELSE [token |-> newToken, cookies |-> setToken(ck, cx, newToken).cookies]

\* clearTokens: deletes the three cookies; a throwing store is caught
clearTokens(ck, cx) == IF cx # "rw" THEN ck ELSE NoCookies


(***************************************************************************)
(* Rate limiter (lib/edge.ts: rateLimits.api, getRateLimitHeaders)         *)
(***************************************************************************)
\* requests allowed per client and window (the K of the threshold)
RateLimit == 2
\* length of a window in milliseconds
WindowMs == 3000
\* last tick of the model clock; a tick is half a window
MaxTicks == 3
\* milliseconds per second, the divisor of Retry-After
MsPerSec == 1000
TickMs == WindowMs \div 2
\* the client identifiers getClientIdentifier() yields in the model
Clients == {"c1"}

EmptyBucket == [count |-> 0, resetTime |-> 0]
NoBuckets == [c \in Clients |-> EmptyBucket]

\* the bucket of a client after one more request at time t: a bucket whose
\* window is over starts again at 1, otherwise the counter goes up by one
BumpBucket(b, t) ==
    IF t >= b.resetTime
    THEN [count |-> 1, resetTime |-> t + WindowMs]
    ELSE [count |-> b.count + 1, resetTime |-> b.resetTime]

\* rateLimits.api(clientId): atomically counts the request and reports
\* {allowed, remaining, resetTime}
rateLimitsApi(bk, clientId, t) ==
    LET b == BumpBucket(bk[clientId], t) IN
    [buckets   |-> [bk EXCEPT ![clientId] = b],
     allowed   |-> b.count <= RateLimit,
     remaining |-> IF b.count <= RateLimit THEN RateLimit - b.count ELSE 0,
     resetTime |-> b.resetTime]

\* Math.ceil(x / d) for d > 0
CeilDiv(x, d) == IF x % d = 0 THEN x \div d ELSE (x \div d) + 1

(***************************************************************************)
(* middleware (middleware.ts)                                              *)
(***************************************************************************)
StateChangingMethods == {"POST", "PUT", "DELETE", "PATCH"}
\* the methods the model sends
Methods == {"GET", "POST", "DELETE"}

\* pathnames, cut into pieces at the places where the prefixes compared
\* against them end, so that a prefix of pieces is a prefix of characters
ApiPrefix == <<"/", "api", "/">>
skipCSRF ==
    { <<"/", "api", "/", "webhooks", "/">>,
      <<"/", "api", "/", "upload", "/">>,
      <<"/", "api", "/", "media", "/", "resolve">>,
      <<"/", "auth", "/", "callback">>,
      <<"/", "api", "/", "auth", "/">>,
      <<"/", "api", "/", "security", "/", "csp-report">> }
Paths ==
    { <<"/", "api", "/", "posts">>,
      <<"/", "api", "/", "webhooks">>,
      <<"/", "api", "/", "webhooks", "/", "stripe">>,
      <<"/", "api", "/", "upload", "/", "image">>,
      <<"/", "api", "/", "media", "/", "resolve">>,
      <<"/", "auth", "/", "callback">>,
      <<"/", "api", "/", "auth", "/", "signin">>,
      <<"/", "api", "/", "security", "/", "csp-report">>,
      <<"/", "dashboard", "/", "posts">> }

\* pathname.startsWith(prefix)
StartsWith(path, prefix) ==
    /\ Len(prefix) <= Len(path)
    /\ SubSeq(path, 1, Len(prefix)) = prefix

\* skipCSRF.some((path) => pathname.startsWith(path))
shouldSkipCSRF(path) == \E prefix \in skipCSRF : StartsWith(path, prefix)

\* the CSRF stage with an empty exemption list
csrfStageApplies_NoExemptions(method, path) ==
    /\ method \in StateChangingMethods
    /\ StartsWith(path, ApiPrefix)

\* the condition under which the middleware asks for a CSRF token:
\* a state-changing method, no exempt prefix, and a path under /api/
csrfStageApplies(method, path) ==
    /\ method \in StateChangingMethods
    /\ ~shouldSkipCSRF(path)
    /\ StartsWith(path, ApiPrefix)

\* the redirect check that never sees a Location header
hasLocation_Never(req) == FALSE

\* response.headers.has("Location") on what updateSession returned
hasLocation(req) == req.sessionRedirect

\* !csrfToken on the x-csrf-token header
csrfTokenMissing(token) == token = Null \/ token = ""

\* the validity check that lets every token through
csrfRejects_Never(isValid) == FALSE

\* if (!isValid): the CSRF stage rejects
csrfRejects(isValid) == ~isValid

\* the rate-limit stage applied to every path
underApi_Everywhere(path) == TRUE

\* request.nextUrl.pathname.startsWith("/api/"): the rate-limit stage applies
underApi(path) == StartsWith(path, ApiPrefix)

\* the rate-limit stage that never rejects
rateLimitRejects_Never(rl) == FALSE

\* if (!rateLimitResult.allowed): the rate-limit stage rejects
rateLimitRejects(rl) == ~rl.allowed

\* Retry-After: Math.ceil((resetTime - Date.now()) / 1000)
retryAfter(rl, t) == CeilDiv(rl.resetTime - t, MsPerSec)

\* a response of the middleware, with what the pass did on the way
Response(kind, status, code, sec, nc, xn, cc, cr, rc, ra, rh, retry) ==
    [kind |-> kind, status |-> status, code |-> code,
     securityHeaders |-> sec, nonceCookie |-> nc, xNonce |-> xn,
     csrfCalls |-> cc, csrfResult |-> cr,
     rlCalls |-> rc, rlAllowed |-> ra, rlHeaders |-> rh,
     retryAfter |-> retry]

\* the rate-limit stage and the forwarding that follows it; csrfCalls and
\* csrfResult say what the CSRF stage before it did
rateLimitStage(req, bk, t, csrfCalls, csrfResult) ==
    LET rl == rateLimitsApi(bk, req.clientId, t) IN
    IF ~underApi(req.path)
    THEN [resp |-> Response("next", 200, Null, TRUE, TRUE, TRUE,
                            csrfCalls, csrfResult, 0, "none", FALSE, -1),
          buckets |-> bk]
    ELSE IF rateLimitRejects(rl)
    THEN [resp |-> Response("json", 429, "RATE_LIMIT_EXCEEDED", TRUE, FALSE, FALSE,
                            csrfCalls, csrfResult, 1, BoolStr(rl.allowed), TRUE,
                            retryAfter(rl, t)),
          buckets |-> rl.buckets]
    ELSE [resp |-> Response("next", 200, Null, TRUE, TRUE, TRUE,
                            csrfCalls, csrfResult, 1, BoolStr(rl.allowed), TRUE, -1),
          buckets |-> rl.buckets]

\* middleware(request): session refresh, nonce and security headers, CSRF
\* stage, rate-limit stage, forward. newToken is what generateToken() would
\* return on validateToken's recovery path.
middleware(req, ck, cx, bk, t, newToken) ==
    LET v == validateToken(ck, cx, req.csrfHeader, newToken) IN
    IF hasLocation(req)
    THEN [resp |-> Response("session", 307, Null, FALSE, FALSE, FALSE,
                            0, "none", 0, "none", FALSE, -1),
          cookies |-> ck, buckets |-> bk]
    ELSE IF ~csrfStageApplies(req.method, req.path)
    THEN [resp |-> rateLimitStage(req, bk, t, 0, "none").resp,
          cookies |-> ck,
          buckets |-> rateLimitStage(req, bk, t, 0, "none").buckets]
    ELSE IF csrfTokenMissing(req.csrfHeader)
    THEN [resp |-> Response("json", 403, "CSRF_TOKEN_MISSING", TRUE, FALSE, FALSE,
                            0, "none", 0, "none", FALSE, -1),
          cookies |-> ck, buckets |-> bk]
    ELSE IF csrfRejects(v.result)
    THEN [resp |-> Response("json", 403, "CSRF_TOKEN_INVALID", TRUE, FALSE, FALSE,
                            1, BoolStr(v.result), 0, "none", FALSE, -1),
          cookies |-> v.cookies, buckets |-> bk]
    ELSE [resp |-> rateLimitStage(req, bk, t, 1, BoolStr(v.result)).resp,
          cookies |-> v.cookies,
          buckets |-> rateLimitStage(req, bk, t, 1, BoolStr(v.result)).buckets]

\* the pass calls validateToken, and with it cookies() and, on recovery,
\* generateToken()
callsValidateToken(req) ==
    /\ ~hasLocation(req)
    /\ csrfStageApplies(req.method, req.path)
    /\ ~csrfTokenMissing(req.csrfHeader)

\* the requests the model sends through the middleware
Requests ==
    [method : Methods, path : Paths, csrfHeader : Submittable \cup {Null},
     clientId : Clients, sessionRedirect : BOOLEAN]

(***************************************************************************)
(* Server actions (actions/posts.ts, actions/users.ts,                     *)
(* actions/bookmarks.ts, actions/favorites.ts) and withCSRFProtection      *)
(***************************************************************************)
\* the server actions that write to the database
ServerActions ==
    { "createPostAction", "updatePostAction", "approvePostAction",
      "rejectPostAction", "deletePostAction", "togglePostPublishAction",
      "togglePostFeaturedAction", "updateUserProfileAction",
      "toggleBookmarkAction", "toggleFavoriteAction" }

\* the actions exported as withCSRFProtection(async (formData) => ...)
wrappedActions ==
    { "createPostAction", "updatePostAction", "updateUserProfileAction" }

\* the actions that refuse every role but ADMIN
adminOnlyActions ==
    { "approvePostAction", "rejectPostAction", "togglePostPublishAction",
      "togglePostFeaturedAction" }

\* the session's user: none, or a user with role USER or ADMIN
Roles == {"none", "USER", "ADMIN"}

\* the action's own body: it writes when the caller is signed in with a role
\* the action admits and its other checks (input, target row) pass
actionBody(name, role, checksPass) ==
    /\ role # "none"
    /\ name \in adminOnlyActions => role = "ADMIN"
    /\ checksPass

\* withCSRFProtection(action)(...args): needs a FormData argument, validates
\* its csrf_token field, and runs the action only when validateToken returned
\* true
withCSRFProtection(hasFormData, token, ck, cx, newToken) ==
    LET v == validateToken(ck, cx, token, newToken) IN
    IF ~hasFormData
    THEN [runs |-> FALSE, error |-> "CSRF_NO_FORM_DATA", csrfCalls |-> 0,
          csrfResult |-> "none", cookies |-> ck]
    ELSE IF ~v.result
    THEN [runs |-> FALSE, error |-> "CSRF_TOKEN_INVALID", csrfCalls |-> 1,
          csrfResult |-> "false", cookies |-> v.cookies]
    ELSE [runs |-> TRUE, error |-> Null, csrfCalls |-> 1,
          csrfResult |-> "true", cookies |-> v.cookies]

\* an exported action called directly, with no wrapper around it
unwrapped(ck) ==
    [runs |-> TRUE, error |-> Null, csrfCalls |-> 0, csrfResult |-> "none",
     cookies |-> ck]

\* one call of an exported server action
serverAction(name, hasFormData, token, role, checksPass, ck, cx, newToken) ==
    LET gate == IF name \in wrappedActions
                THEN withCSRFProtection(hasFormData, token, ck, cx, newToken)
                ELSE unwrapped(ck)
    IN [gate |-> gate,
        wrote |-> gate.runs /\ actionBody(name, role, checksPass)]

(***************************************************************************)
(* SecurityHeaders and CSPNonce (lib/security/csp.ts)                      *)
(***************************************************************************)
\* an environment variable that is not set; a set one is the non-empty
\* sequence of the pieces of its value
Unset == <<>>
\* if (value): a set variable is truthy
Truthy(v) == v # Unset
NodeEnvs == {"production", "development", "test"}
\* the optional origin variables: NEXT_PUBLIC_CLOUDFRONT_URL,
\* NEXT_PUBLIC_CLOUDFLARE_URL, NEXT_PUBLIC_CDN_URL, NEXT_PUBLIC_SUPABASE_URL
\* and NEXT_PUBLIC_SANITY_PROJECT_ID
CdnVars == {"CLOUDFRONT", "CLOUDFLARE", "CDN"}
OptionalVars == CdnVars \cup {"SUPABASE", "SANITY"}
\* the value each variable has when it is set; a URL is scheme, host, path
SetValue ==
    [CLOUDFRONT |-> <<"https://", "d111.cloudfront.net">>,
     CLOUDFLARE |-> <<"https://", "assets.example.workers.dev">>,
     CDN        |-> <<"https://", "cdn.example.com">>,
     SUPABASE   |-> <<"https://", "abc.supabase.co", "/rest/v1">>,
     SANITY     |-> <<"proj1">>]
\* process.env with every subset of the optional variables set
Envs ==
    { [NODE_ENV |-> n,
       origins  |-> [v \in OptionalVars |-> IF v \in S THEN SetValue[v] ELSE Unset]] :
        n \in NodeEnvs, S \in SUBSET OptionalVars }

\* CSPNonce.generate(): nanoid(32), one of these non-empty strings
Nonces == {"n1", "n2"}
\* the nonce argument of the composer: a nonce, the empty string, undefined
NonceArgs == Nonces \cup {"", Null}

\* a source of a directive with the place it comes from: the static list
\* ("static"), a branch of the code ("dev", "nonce"), or an optional variable
Source(from, src) == [from |-> from, src |-> src]
\* a list of literal sources, one piece each
Static(list) == [i \in 1..Len(list) |-> Source("static", <<list[i]>>)]
\* a wildcard host: the piece "*." after the scheme
WildSupabase == <<"https://", "*.", "supabase.co">>
WildSanity == <<"https://", "*.", "sanity.io">>

\* new URL(url).origin: scheme and host, without the path
Origin(url) == SubSeq(url, 1, 2)
\* origin.replace('https://', 'wss://')
ReplaceScheme(origin) ==
    IF origin[1] = "https://" THEN <<"wss://">> \o Tail(origin) ELSE origin

\* getExternalDomains: the Supabase origin or "https://*.supabase.co", the
\* Sanity project's API host or "https://*.sanity.io", the Stripe hosts, and
\* the three CDN variables as they are
getExternalDomains(e) ==
    [supabase |-> IF Truthy(e.origins["SUPABASE"])
                  THEN Origin(e.origins["SUPABASE"]) ELSE WildSupabase,
     sanity   |-> IF Truthy(e.origins["SANITY"])
                  THEN <<"https://">> \o e.origins["SANITY"] \o <<".api.sanity.io">>
                  ELSE WildSanity,
     stripe   |-> <<"https://js.stripe.com", "https://checkout.stripe.com">>,
     cdn      |-> [cloudfront |-> e.origins["CLOUDFRONT"],
                   cloudflare |-> e.origins["CLOUDFLARE"],
                   custom     |-> e.origins["CDN"]]]

\* the CDN entry put into the list whether or not the variable is set
cdnSource_Always(from, value) == <<Source(from, value)>>

\* ...(domains.cdn.x ? [domains.cdn.x] : [])
cdnSource(from, value) == IF Truthy(value) THEN <<Source(from, value)>> ELSE <<>>

\* the three CDN entries of img-src and connect-src
cdnSources(domains) ==
    cdnSource("CLOUDFRONT", domains.cdn.cloudfront)
        \o cdnSource("CLOUDFLARE", domains.cdn.cloudflare)
        \o cdnSource("CDN", domains.cdn.custom)

\* the static allow-list of script-src
scriptSources ==
    <<"'self'",
      "'sha256-n46vPwSWuMC0W703pBofImv82Z26xo4LXymv0E9caPk='",
      "https://www.googletagmanager.com",
      "https://www.google-analytics.com",
      "https://googleads.g.doubleclick.net",
      "https://www.google.com",
      "https://accounts.google.com",
      "https://apis.google.com",
      "https://accounts.google.com",
      "https://oauth2.googleapis.com",
      "https://www.googleapis.com",
      "https://identitytoolkit.googleapis.com",
      "https://securetoken.googleapis.com",
      "https://js.stripe.com",
      "https://checkout.stripe.com",
      "https://va.vercel-scripts.com">>

\* buildScriptSrc that adds 'unsafe-inline' in development also with a nonce
buildScriptSrc_InlineWithNonce(nonce, isDevelopment) ==
    Static(scriptSources)
        \o (IF isDevelopment THEN <<Source("dev", <<"'unsafe-eval'">>)>> ELSE <<>>)
        \o (IF nonce # Null /\ nonce # ""
            THEN <<Source("nonce", <<"'nonce-", nonce, "'">>),
                   Source("nonce", <<"'strict-dynamic'">>)>>
            ELSE <<>>)
        \o (IF isDevelopment THEN <<Source("dev", <<"'unsafe-inline'">>)>> ELSE <<>>)

\* buildScriptSrc: the static list, 'unsafe-eval' in development, then the
\* nonce with 'strict-dynamic' if (nonce), else 'unsafe-inline' in development
buildScriptSrc(nonce, isDevelopment) ==
    Static(scriptSources)
        \o (IF isDevelopment THEN <<Source("dev", <<"'unsafe-eval'">>)>> ELSE <<>>)
        \o (IF nonce # Null /\ nonce # ""
            THEN <<Source("nonce", <<"'nonce-", nonce, "'">>),
                   Source("nonce", <<"'strict-dynamic'">>)>>
            ELSE IF isDevelopment
            THEN <<Source("dev", <<"'unsafe-inline'">>)>>
            ELSE <<>>)

\* the literal image sources before and after the environment's entries
imageSourcesHead == <<"'self'", "blob:", "data:", "https:">>
imageSourcesTail ==
    <<"https://*.supabase.co",
      "https://*.googleusercontent.com",
      "https://*.googleapis.com",
      "https://lh3.googleusercontent.com",
      "https://*.amazonaws.com",
      "https://*.s3.amazonaws.com",
      "https://s3.amazonaws.com",
      "https://*.digitaloceanspaces.com",
      "https://*.sanity.io",
      "https://cdn.sanity.io",
      "https://googleads.g.doubleclick.net",
      "https://www.google.com",
      "https://ssl.gstatic.com",
      "https://www.gstatic.com",
      "https://checkout.stripe.com",
      "https://q.stripe.com">>

\* buildImgSrc: the literals, the CDN entries that are set, domains.supabase
buildImgSrc(e) ==
    Static(imageSourcesHead)
        \o cdnSources(getExternalDomains(e))
        \o <<Source("SUPABASE", getExternalDomains(e).supabase)>>
        \o Static(imageSourcesTail)

\* the literal connect sources after the environment's entries
connectSourcesTail ==
    <<"https://*.apicdn.sanity.io",
      "https://cdn.sanity.io",
      "https://www.google-analytics.com",
      "https://analytics.google.com",
      "https://www.googletagmanager.com",
      "https://accounts.google.com",
      "https://apis.google.com",
      "https://region1.google-analytics.com",
      "https://www.google.com",
      "https://oauth2.googleapis.com",
      "https://www.googleapis.com",
      "https://identitytoolkit.googleapis.com",
      "https://securetoken.googleapis.com",
      "https://identitytoolkit.googleapis.com",
      "https://api.stripe.com",
      "https://events.stripe.com",
      "https://m.stripe.com">>
connectSourcesLast ==
    <<"https://*.amazonaws.com",
      "https://*.s3.amazonaws.com",
      "https://s3.amazonaws.com",
      "https://*.digitaloceanspaces.com",
      "https://*.redislabs.com",
      "https://*.redis.cloud",
      "https://vitals.vercel-insights.com",
      "https://vitals.vercel-analytics.com">>
connectSourcesDev ==
    <<"http://localhost:*", "ws://localhost:*", "wss://localhost:*",
      "http://127.0.0.1:*">>

\* buildConnectSrc: 'self', the CDN entries that are set, domains.supabase
\* and its wss:// twin, domains.sanity, the literals, the Stripe hosts, and
\* in development the localhost sources
buildConnectSrc(e, isDevelopment) ==
    Static(<<"'self'">>)
        \o cdnSources(getExternalDomains(e))
        \o <<Source("SUPABASE", getExternalDomains(e).supabase),
              Source("SUPABASE", ReplaceScheme(getExternalDomains(e).supabase)),
              Source("SANITY", getExternalDomains(e).sanity)>>
        \o Static(connectSourcesTail)
        \o Static(getExternalDomains(e).stripe)
        \o Static(connectSourcesLast)
        \o (IF isDevelopment
             THEN [i \in 1..Len(connectSourcesDev) |->
                      Source("dev", <<connectSourcesDev[i]>>)]
             ELSE <<>>)

\* generateCSP: the directives that depend on the nonce or the environment
generateCSP(nonce, isDevelopment, e) ==
    [scriptSrc  |-> buildScriptSrc(nonce, isDevelopment),
     imgSrc     |-> buildImgSrc(e),
     connectSrc |-> buildConnectSrc(e, isDevelopment),
     upgradeInsecureRequests |-> ~isDevelopment]

\* getSecurityHeaders(nonce): the fixed headers, HSTS outside development,
\* and the Content-Security-Policy
getSecurityHeaders(nonce, e) ==
    [xContentTypeOptions |-> "nosniff",
     xXssProtection |-> "1; mode=block",
     xFrameOptions |-> IF e.NODE_ENV = "development" THEN "SAMEORIGIN" ELSE "DENY",
     hsts |-> e.NODE_ENV # "development",
     csp |-> generateCSP(nonce, e.NODE_ENV = "development", e)]

\* the sources of a directive, without their provenance
Srcs(directive) == {directive[i].src : i \in 1..Len(directive)}

(***************************************************************************)
(* middleware: the nonce it threads through the pass, and its try/catch    *)
(***************************************************************************)
\* process.env as the process starts: no optional origin variable set
StartEnv(prod) ==
    [NODE_ENV |-> IF prod THEN "production" ELSE "development",
     origins  |-> [v \in OptionalVars |-> Unset]]

\* what the next CSPNonce.generate() call would return after n: another value
OtherNonce(n) == CHOOSE m \in Nonces : m # n

\* the pass calling CSPNonce.generate() again for the cookie
nonceChannels_Regenerates(nonces, e) ==
    [generateCalls |-> 2,
     xNonce        |-> nonces[1],
     nonceCookie   |-> nonces[2],
     scriptSrc     |-> getSecurityHeaders(nonces[1], e).csp.scriptSrc]

\* const nonce = CSPNonce.generate(), then the three places the pass puts
\* it: requestHeaders.set("x-nonce", nonce), response.cookies.set("csp-nonce",
\* nonce), SecurityHeaders.getSecurityHeaders(nonce); nonces are the values
\* successive generate() calls return
nonceChannels(nonces, e) ==
    [generateCalls |-> 1,
     xNonce        |-> nonces[1],
     nonceCookie   |-> nonces[1],
     scriptSrc     |-> getSecurityHeaders(nonces[1], e).csp.scriptSrc]

\* the places of the try block that call out and can throw
Stages == {"nonce", "session", "headers", "csrf", "ratelimit", "logging"}

\* the pass gets as far as the call that throws: CSPNonce.generate and
\* updateSession always, getSecurityHeaders unless the session step
\* redirected, validateToken when the CSRF stage calls it, rateLimits.api for
\* a path under /api/ that the CSRF stage let through, and
\* SecurityEvents.rateLimitExceeded when the limiter refuses
stageReached(stage, req, out) ==
    CASE stage = "nonce"     -> TRUE
      [] stage = "session"   -> TRUE
      [] stage = "headers"   -> ~hasLocation(req)
      [] stage = "csrf"      -> callsValidateToken(req)
      [] stage = "ratelimit" -> /\ ~hasLocation(req)
                                /\ out.resp.status # 403
                                /\ underApi(req.path)
      [] stage = "logging"   -> out.resp.status = 429
      [] OTHER               -> FALSE

\* const basicSecurityHeaders of the catch block
basicSecurityHeaders ==
    {"X-Content-Type-Options", "X-Frame-Options", "X-XSS-Protection"}

\* the names of the headers getSecurityHeaders returns
securityHeaderNames(e) ==
    {"X-Content-Type-Options", "X-XSS-Protection", "Referrer-Policy",
     "X-Frame-Options", "Permissions-Policy", "Content-Security-Policy"}
        \cup (IF e.NODE_ENV # "development"
              THEN {"Strict-Transport-Security", "X-DNS-Prefetch-Control"}
              ELSE {})

\* what one pass gives back to the framework
PassResult(outcome, status, body, fwd, names, ch, calls, ck, bk) ==
    [outcome |-> outcome, status |-> status, body |-> body, forwarded |-> fwd,
     headerNames |-> names, channels |-> ch, generateCalls |-> calls,
     cookies |-> ck, buckets |-> bk]

\* no nonce on any channel
NoChannels == [xNonce |-> Null, nonceCookie |-> Null, scriptSrc |-> <<>>]

\* the body of a JSON response of the middleware, or none
Body(code) ==
    CASE code = "CSRF_TOKEN_MISSING" ->
             [error |-> "CSRF token required", code |-> code]
      [] code = "CSRF_TOKEN_INVALID" ->
             [error |-> "Invalid CSRF token", code |-> code]
      [] code = "RATE_LIMIT_EXCEEDED" ->
             [error |-> "Too many requests", code |-> code]
      [] OTHER -> [error |-> Null, code |-> Null]

\* the state a throwing stage leaves behind: the bucket is counted once the
\* limiter has answered, the cookies are the ones validateToken left
thrownAt(stage, out, ck, bk) ==
    [cookies |-> IF stage \in {"ratelimit", "logging"} THEN out.cookies ELSE ck,
     buckets |-> IF stage = "logging" THEN out.buckets ELSE bk]

\* the try block of middleware: the pass with the nonce it generated, or
\* the exception of the stage that throws
middlewareTry(req, ck, cx, bk, t, newToken, nonces, throwsAt, e) ==
    LET out == middleware(req, ck, cx, bk, t, newToken)
        ch  == nonceChannels(nonces, e)
    IN  IF stageReached(throwsAt, req, out)
        THEN PassResult("threw", 0, Body(Null), FALSE, {}, NoChannels,
                        ch.generateCalls,
                        thrownAt(throwsAt, out, ck, bk).cookies,
                        thrownAt(throwsAt, out, ck, bk).buckets)
        ELSE PassResult("returned", out.resp.status, Body(out.resp.code),
                        out.resp.kind = "next",
                        (IF out.resp.securityHeaders
                         THEN securityHeaderNames(e) ELSE {})
                            \cup (IF out.resp.rlHeaders
                                  THEN {"X-RateLimit-Limit", "X-RateLimit-Remaining",
                                        "X-RateLimit-Reset"} ELSE {})
                            \cup (IF out.resp.status = 429 THEN {"Retry-After"} ELSE {}),
                        [xNonce      |-> IF out.resp.xNonce THEN ch.xNonce ELSE Null,
                         nonceCookie |-> IF out.resp.nonceCookie
                                         THEN ch.nonceCookie ELSE Null,
                         scriptSrc   |-> IF out.resp.securityHeaders
                                         THEN ch.scriptSrc ELSE <<>>],
                        ch.generateCalls, out.cookies, out.buckets)

\* middleware without its catch block: the exception leaves the function
middlewareCatch_Rethrows(tried) == tried

\* the catch block of middleware: every exception becomes the 500
\* MIDDLEWARE_ERROR response with the three basic security headers
middlewareCatch(tried) ==
    IF tried.outcome = "threw"
    THEN [tried EXCEPT !.outcome = "returned",
                       !.status = 500,
                       !.body = [error |-> "Internal server error",
                                 code  |-> "MIDDLEWARE_ERROR"],
                       !.headerNames = basicSecurityHeaders]
    ELSE tried

\* the requests sent through the pass
PassPaths ==
    { <<"/", "api", "/", "posts">>,
      <<"/", "api", "/", "webhooks", "/", "stripe">>,
      <<"/", "dashboard", "/", "posts">> }
PassRequests == {r \in Requests : r.path \in PassPaths /\ r.csrfHeader # ""}

PassIdle == [kind |-> "none"]
HdrIdle == [kind |-> "none"]

(***************************************************************************)
(* CSRFProtection on a runtime whose Web Crypto API is incomplete          *)
(***************************************************************************)
\* the runtime has the whole API ("ok"), no crypto.randomUUID ("noUUID":
\* generateToken throws) or no crypto.subtle ("noSubtle": timingSafeEqual
\* throws)
CryptoStates == {"ok", "noUUID", "noSubtle"}

\* validateToken without the try/catch around the comparison
validateTokenOn_NoCatch(cr, ck, cx, submitted, newToken) ==
    IF submitted = Null \/ submitted = ""
    THEN [outcome |-> "false", cookies |-> ck]
    ELSE IF getTokenFromCookie(ck, cx) = Null
    THEN IF cr = "noUUID"
         THEN [outcome |-> "false", cookies |-> ck]
         ELSE [outcome |-> "false", cookies |-> setToken(ck, cx, newToken).cookies]
    ELSE IF cr = "noSubtle"
    THEN [outcome |-> "threw", cookies |-> ck]
    ELSE [outcome |-> BoolStr(timingSafeEqual(submitted, getTokenFromCookie(ck, cx))),
          cookies |-> ck]

\* validateToken with its two try/catch blocks: in the recovery block a
\* throwing generateToken or setToken is caught and false returned; around
\* the comparison a throwing timingSafeEqual is caught and false returned
validateTokenOn(cr, ck, cx, submitted, newToken) ==
    IF submitted = Null \/ submitted = ""
    THEN [outcome |-> "false", cookies |-> ck]
    ELSE IF getTokenFromCookie(ck, cx) = Null
    THEN IF cr = "noUUID"
         THEN [outcome |-> "false", cookies |-> ck]
         ELSE [outcome |-> "false", cookies |-> setToken(ck, cx, newToken).cookies]
    ELSE IF cr = "noSubtle"
    THEN [outcome |-> "false", cookies |-> ck]
    ELSE [outcome |-> BoolStr(timingSafeEqual(submitted, getTokenFromCookie(ck, cx))),
          cookies |-> ck]


(***************************************************************************)
(* Cache tags, cached reads and the writes that invalidate them            *)
(* (lib/cache, lib/query.ts, lib/content, actions/posts, actions/favorites,*)
(* actions/bookmarks)                                                      *)
(***************************************************************************)
\* the closed set of cache tags
CACHE_TAGS ==
    [POSTS          |-> "posts",
     POST_BY_SLUG   |-> "post-by-slug",
     POST_BY_ID     |-> "post-by-id",
     CATEGORIES     |-> "categories",
     TAGS           |-> "tags",
     USER_POSTS     |-> "user-posts",
     RELATED_POSTS  |-> "related-posts",
     SEARCH_RESULTS |-> "search-results",
     USER_BOOKMARKS |-> "user-bookmarks",
     USER_FAVORITES |-> "user-favorites",
     POPULAR_POSTS  |-> "popular-posts",
     ANALYTICS      |-> "analytics"]

\* who calls an action: nobody signed in, one of two users, an administrator
Sessions == {"none", "u1", "u2", "admin"}
\* who reads pages and marks posts: nobody signed in, or user u1
Readers == {"none", "u1"}
\* the content a form submits for a post
Contents == {"a", "b"}
\* userData.role of the session's user
roleOf(s) ==
    CASE s = "none"  -> "none"
      [] s = "admin" -> "ADMIN"
      [] OTHER       -> "USER"

\* the post table holds at most one row
NoPost ==
    [exists |-> FALSE, authorId |-> Null, status |-> Null, isPublished |-> FALSE,
     isFeatured |-> FALSE, isPremium |-> FALSE, content |-> Null,
     favorites |-> {}, bookmarks |-> {}]
\* the row the database starts with: a submission of u1 that awaits approval
SeedPost ==
    [exists |-> TRUE, authorId |-> "u1", status |-> "PENDING_APPROVAL",
     isPublished |-> FALSE, isFeatured |-> FALSE, isPremium |-> FALSE,
     content |-> "a",
     favorites |-> {}, bookmarks |-> {}]

\* POST_SELECTS: the post as a query returns it to userId, with its
\* _count of favorites and bookmarks and the caller's own marks
Row(d, userId) ==
    [status |-> d.status, isPublished |-> d.isPublished,
     isFeatured |-> d.isFeatured, isPremium |-> d.isPremium,
     authorId |-> d.authorId, content |-> d.content,
     favorites |-> Cardinality(d.favorites),
     bookmarks |-> Cardinality(d.bookmarks),
     isFavorited |-> userId \in d.favorites,
     isBookmarked |-> userId \in d.bookmarks]

\* the cached functions of lib/query.ts: key prefix, declared tags, whether
\* the wrapped function is a memoize(...) wrapper, and the rows it selects
queryCached ==
    [getCachedPosts |->
        [keyPrefix |-> "posts-paginated", tags |-> {CACHE_TAGS.POSTS},
         memoized |-> TRUE, where |-> "isPublished"],
     getCachedPostSearch |->
        [keyPrefix |-> "posts-search",
         tags |-> {CACHE_TAGS.SEARCH_RESULTS, CACHE_TAGS.POSTS},
         memoized |-> TRUE, where |-> "isPublished"],
     getCachedRelatedPosts |->
        [keyPrefix |-> "related-posts", tags |-> {CACHE_TAGS.RELATED_POSTS},
         memoized |-> TRUE, where |-> "isPublished"],
     getCachedPostById |->
        [keyPrefix |-> "post-by-id", tags |-> {CACHE_TAGS.POST_BY_ID},
         memoized |-> FALSE, where |-> "id"],
     getCachedPostBySlug |->
        [keyPrefix |-> "post-by-slug", tags |-> {CACHE_TAGS.POST_BY_SLUG},
         memoized |-> FALSE, where |-> "id"],
     getCachedPopularPosts |->
        [keyPrefix |-> "popular-posts", tags |-> {CACHE_TAGS.POPULAR_POSTS},
         memoized |-> FALSE, where |-> "isPublished"]]

\* the cached functions of lib/content with post data
contentCached ==
    [getAllPosts |->
        [keyPrefix |-> "get-all-posts", tags |-> {CACHE_TAGS.POSTS},
         memoized |-> FALSE, where |-> "isPublished"],
     getPostById |->
        [keyPrefix |-> "get-post-by-id", tags |-> {CACHE_TAGS.POST_BY_ID},
         memoized |-> FALSE, where |-> "id"],
     getPostsByCategory |->
        [keyPrefix |-> "get-posts-by-category", tags |-> {CACHE_TAGS.POSTS},
         memoized |-> FALSE, where |-> "isPublished"],
     searchPosts |->
        [keyPrefix |-> "search-posts", tags |-> {CACHE_TAGS.SEARCH_RESULTS},
         memoized |-> FALSE, where |-> "isPublished"],
     getUserPosts |->
        [keyPrefix |-> "get-user-posts",
         tags |-> {CACHE_TAGS.USER_POSTS, CACHE_TAGS.POSTS},
         memoized |-> FALSE, where |-> "authorId"]]

cachedFunctions == queryCached @@ contentCached
ReadFns == DOMAIN cachedFunctions

\* const allTags = [...tags, keyPrefix]
allTags(f) ==
    IF f \in ReadFns
    THEN cachedFunctions[f].tags \cup {cachedFunctions[f].keyPrefix}
    ELSE {}

\* the userId argument of a read: undefined or a user's id
UserIdArgs == {Null, "u1"}
\* params.userId ? ... : ...
userIdTruthy(userId) == userId \notin {Null, ""}

\* the query behind a cached function, run against the database: the list
\* of the rows it selects (findUnique's null is the empty list)
PostQueries(f, d, userId) ==
    LET w == cachedFunctions[f].where
        selected == CASE w = "isPublished" -> d.exists /\ d.isPublished
                      [] w = "id"          -> d.exists
                      [] w = "authorId"    -> d.exists /\ d.authorId = "u1"
    IN IF selected THEN <<Row(d, userId)>> ELSE <<>>

\* an entry of the data cache or of a memoize Map
Miss == [hit |-> FALSE, value |-> <<>>]
Hit(value) == [hit |-> TRUE, value |-> value]
\* the Next.js data cache of one cached function: an entry per argument list
NoEntries == [u \in UserIdArgs |-> Miss]
\* the key a memoize wrapper derives from the arguments: getRelated's
\* getKey ends in userId || "anon"
MemoKeys == UserIdArgs \cup {"anon"}
memoKey(f, userId) ==
    IF f = "getCachedRelatedPosts" /\ ~userIdTruthy(userId) THEN "anon" ELSE userId
NoMemo == [k \in MemoKeys |-> Miss]

\* memoize(fn, getKey)(...args): the Map lives as long as the module; a
\* stored promise is returned as it is
memoize(f, userId, d, mm) ==
    LET key == memoKey(f, userId) IN
    IF mm[key].hit
    THEN [value |-> mm[key].value, source |-> "memo", memo |-> mm]
    ELSE LET value == PostQueries(f, d, userId) IN
         [value |-> value, source |-> "db", memo |-> [mm EXCEPT ![key] = Hit(value)]]

\* createCachedFunction(fn, keyPrefix, revalidate, tags)(...args):
\* unstable_cache returns the stored entry of the key or runs fn and stores
\* the result under allTags
createCachedFunction(f, userId, d, dc, mm) ==
    LET inner == IF cachedFunctions[f].memoized
                 THEN memoize(f, userId, d, mm)
                 ELSE [value |-> PostQueries(f, d, userId), source |-> "db",
                       memo |-> mm]
    IN IF dc[userId].hit
       THEN [value |-> dc[userId].value, source |-> "cache",
             dataCache |-> dc, memo |-> mm]
       ELSE [value |-> inner.value, source |-> inner.source,
             dataCache |-> [dc EXCEPT ![userId] = Hit(inner.value)],
             memo |-> inner.memo]

\* a direct PostQueries call
directQuery(f, userId, d, dc, mm) ==
    [value |-> PostQueries(f, d, userId), source |-> "db", dataCache |-> dc,
     memo |-> mm]

\* Queries.posts: each method with the cached function of its query; getById
\* and getBySlug are the PostQueries methods themselves
QueriesPosts ==
    [getPaginated |-> [cached |-> "getCachedPosts", direct |-> FALSE],
     search       |-> [cached |-> "getCachedPostSearch", direct |-> FALSE],
     getById      |-> [cached |-> "getCachedPostById", direct |-> TRUE],
     getBySlug    |-> [cached |-> "getCachedPostBySlug", direct |-> TRUE],
     getRelated   |-> [cached |-> "getCachedRelatedPosts", direct |-> FALSE],
     getPopular   |-> [cached |-> "getCachedPopularPosts", direct |-> FALSE]]

\* the routing with the userId test left out
Queries_AlwaysCached(method, userId, d, dc, mm) ==
    LET q == QueriesPosts[method] IN
    IF q.direct
    THEN directQuery(q.cached, userId, d, dc, mm)
    ELSE createCachedFunction(q.cached, userId, d, dc, mm)

\* Queries.posts.<method>(..., userId)
Queries(method, userId, d, dc, mm) ==
    LET q == QueriesPosts[method] IN
    IF q.direct \/ userIdTruthy(userId)
    THEN directQuery(q.cached, userId, d, dc, mm)
    ELSE createCachedFunction(q.cached, userId, d, dc, mm)

\* revalidateCache(tags): revalidateTag drops every entry stored under one of
\* the tags; the entries of f are all stored under allTags(f)
revalidateCache(tags, f, dc) ==
    IF tags \cap allTags(f) # {} THEN NoEntries ELSE dc

\* the post actions that write the post table
PostWriteActions ==
    { "createPostAction", "updatePostAction", "approvePostAction",
      "rejectPostAction", "deletePostAction", "togglePostPublishAction",
      "togglePostFeaturedAction" }

\* the tag list with analytics left out
postWriteTags_NoAnalytics ==
    { CACHE_TAGS.POSTS, CACHE_TAGS.POST_BY_SLUG, CACHE_TAGS.POST_BY_ID,
      CACHE_TAGS.CATEGORIES, CACHE_TAGS.TAGS, CACHE_TAGS.SEARCH_RESULTS,
      CACHE_TAGS.USER_POSTS }

\* the tag list every post action passes to revalidateCache
postWriteTags ==
    { CACHE_TAGS.POSTS, CACHE_TAGS.POST_BY_SLUG, CACHE_TAGS.POST_BY_ID,
      CACHE_TAGS.CATEGORIES, CACHE_TAGS.TAGS, CACHE_TAGS.SEARCH_RESULTS,
      CACHE_TAGS.USER_POSTS, CACHE_TAGS.ANALYTICS }

\* what one run of an action's body did: how it ended, the database after
\* it, its effects in order, the tags it passed to revalidateCache
Ran(outcome, d, steps, tags) ==
    [outcome |-> outcome, db |-> d, steps |-> steps, tags |-> tags]
\* the body threw before its database write
refused(d) == Ran("refused", d, <<>>, {})

\* every post of the administrator is APPROVED
statusFor_Approved(published) == "APPROVED"

\* PostStatus of a post the administrator publishes or unpublishes
statusFor(published) == IF published THEN "APPROVED" ELSE "DRAFT"

\* the body of a post action run by session s: the session, role and input
\* checks, the write of the post row, the linking of uploaded media (create
\* and update), then revalidateCache
postAction(name, s, checksPass, publish, premium, content, linkFails, d) ==
    LET role == roleOf(s)
        locked == d.status \in {"APPROVED", "REJECTED"}
        mayChange == role = "ADMIN" \/ (role = "USER" /\ d.authorId = s /\ ~locked)
        pending == d.status = "PENDING_APPROVAL"
        written(d2) == IF linkFails /\ name \in {"createPostAction", "updatePostAction"}
                       THEN Ran("failed", d2, <<"db">>, {})
                       ELSE Ran("ok", d2, <<"db", "revalidate">>, postWriteTags)
        byRole == IF role = "ADMIN"
                  THEN [isPublished |-> publish, status |-> statusFor(publish)]
                  ELSE [isPublished |-> FALSE, status |-> "PENDING_APPROVAL"]
    IN
    IF role = "none" THEN Ran("redirect", d, <<>>, {})
    ELSE IF name \in adminOnlyActions /\ role # "ADMIN" THEN refused(d)
    ELSE IF ~checksPass THEN refused(d)
    ELSE IF name = "createPostAction"
    THEN written([exists |-> TRUE, authorId |-> s, status |-> byRole.status,
                  isPublished |-> byRole.isPublished, isFeatured |-> FALSE,
                  isPremium |-> premium, content |-> content, favorites |-> {}, bookmarks |-> {}])
    ELSE IF ~d.exists THEN refused(d)
    ELSE CASE name = "updatePostAction" ->
                IF ~mayChange THEN refused(d)
                ELSE written([d EXCEPT !.isPublished = byRole.isPublished,
                                       !.status = byRole.status,
                                       !.isPremium = premium,
                                       !.content = content])
           [] name = "approvePostAction" ->
                IF ~pending THEN refused(d)
                ELSE written([d EXCEPT !.isPublished = TRUE,
                                       !.status = "APPROVED"])
           [] name = "rejectPostAction" ->
                IF ~pending THEN refused(d)
                ELSE written([d EXCEPT !.isPublished = FALSE,
                                       !.status = "REJECTED"])
           [] name = "deletePostAction" ->
                IF ~mayChange THEN refused(d) ELSE written(NoPost)
           [] name = "togglePostPublishAction" ->
                written([d EXCEPT !.isPublished = ~d.isPublished,
                                  !.status = statusFor(~d.isPublished)])
           [] name = "togglePostFeaturedAction" ->
                written([d EXCEPT !.isFeatured = ~d.isFeatured])

\* add s to a set of user ids or take it out
Toggle(set, s) == IF s \in set THEN set \ {s} ELSE set \cup {s}

\* toggleFavoriteAction: the session's favorite row is deleted or created,
\* then three tags are invalidated
toggleFavoriteAction(s, checksPass, d) ==
    IF ~checksPass THEN refused(d)
    ELSE IF roleOf(s) = "none" THEN Ran("unauthenticated", d, <<>>, {})
    ELSE IF ~d.exists THEN refused(d)
    ELSE Ran("ok", [d EXCEPT !.favorites = Toggle(d.favorites, s)],
             <<"db", "revalidate">>,
             {CACHE_TAGS.USER_FAVORITES, CACHE_TAGS.POST_BY_ID,
              CACHE_TAGS.POPULAR_POSTS})

\* toggleBookmarkAction: the session's bookmark row is deleted or created,
\* then two tags are invalidated
toggleBookmarkAction(s, checksPass, d) ==
    IF ~checksPass THEN refused(d)
    ELSE IF roleOf(s) = "none" THEN Ran("unauthenticated", d, <<>>, {})
    ELSE IF ~d.exists THEN refused(d)
    ELSE Ran("ok", [d EXCEPT !.bookmarks = Toggle(d.bookmarks, s)],
             <<"db", "revalidate">>,
             {CACHE_TAGS.USER_BOOKMARKS, CACHE_TAGS.POST_BY_ID})

\* the last cache event: nothing yet
EvIdle ==
    [kind |-> "none", name |-> Null, userId |-> Null, role |-> Null,
     outcome |-> Null, steps |-> <<>>, tags |-> {}, dbBefore |-> SeedPost,
     value |-> <<>>, source |-> Null, cacheTouched |-> FALSE,
     trail |-> "none"]

(***************************************************************************)
(* GET and HEAD /api/posts/[id] (app/api/posts/[id]/route.ts)              *)
(***************************************************************************)
\* getCurrentUser(): null, or the Supabase user with its Prisma userData
NoUser == [signedIn |-> FALSE, id |-> Null, role |-> Null, type |-> Null]
\* the requesters: nobody, the author u1, another free user, a premium
\* user, an administrator, a Supabase user without a userData row
ApiUsers ==
    { NoUser,
      [signedIn |-> TRUE, id |-> "u1", role |-> "USER", type |-> "FREE"],
      [signedIn |-> TRUE, id |-> "u2", role |-> "USER", type |-> "FREE"],
      [signedIn |-> TRUE, id |-> "u3", role |-> "USER", type |-> "PREMIUM"],
      [signedIn |-> TRUE, id |-> "admin", role |-> "ADMIN", type |-> "FREE"],
      [signedIn |-> TRUE, id |-> Null, role |-> Null, type |-> Null] }
\* the pathname of the route's requests
ApiPaths == { <<"/", "api", "/", "posts", "/", "p1">> }

\* NextResponse.json(body, { status }); the body of a 200 is the list of
\* the one post, of every other response the empty list
JsonResponse(status, body) == [status |-> status, body |-> body]

\* handlePostRequest(request, { params }, isHeadRequest): post is what
\* getPostById(id) returned, d the database the marks are read from
handlePostRequest(isHeadRequest, path, user, post, d) ==
    LET isDashboardRequest == StartsWith(path, <<"/", "dashboard">>)
        found == post # <<>>
        p == post[1]
        isAuthor == p.authorId = user.id
        isAdmin == user.role = "ADMIN"
        canViewUnpublished == user.signedIn /\ (isAuthor \/ isAdmin)
        isUserFree == user.type \in {"FREE", Null}
        marked(set) == user.id # Null /\ user.id \in set
    IN
    IF isHeadRequest
    THEN IF ~found \/ ~p.isPublished THEN JsonResponse(404, <<>>)
         ELSE JsonResponse(200, <<>>)
    ELSE IF isDashboardRequest /\ ~user.signedIn THEN JsonResponse(401, <<>>)
    ELSE IF isDashboardRequest /\ user.role \notin {"ADMIN", "USER"}
    THEN JsonResponse(403, <<>>)
    ELSE IF ~found THEN JsonResponse(404, <<>>)
    ELSE IF ~p.isPublished /\ ~canViewUnpublished THEN JsonResponse(404, <<>>)
    ELSE IF p.isPremium /\ p.isPublished /\ user.signedIn
            /\ isUserFree /\ ~isAdmin /\ ~isAuthor
    THEN JsonResponse(403, <<>>)
    ELSE JsonResponse(200, <<[p EXCEPT !.isBookmarked = marked(d.bookmarks),
                                   !.isFavorited = marked(d.favorites)]>>)

\* no request to the route yet
ApiIdle == [kind |-> "none"]

(***************************************************************************)
(* Cache key generators (lib/cache, lib/query.ts).  A string is the        *)
(* sequence of its characters; a word of a literal whose characters occur  *)
(* in no argument is one piece.                                            *)
(***************************************************************************)
\* an optional argument: undefined, or a value
Undefined == [set |-> FALSE, v |-> <<>>]
Given(v) == [set |-> TRUE, v |-> v]
\* an optional number that is undefined
NoNumber == [set |-> FALSE, v |-> 0]

\* the strings of a list put one after the other
RECURSIVE Concat(_)
Concat(list) ==
    IF list = <<>> THEN <<>> ELSE Head(list) \o Concat(Tail(list))
\* list.join(sep)
RECURSIVE JoinWith(_, _)
JoinWith(list, sep) ==
    IF list = <<>> THEN <<>>
    ELSE IF Len(list) = 1 THEN list[1]
    ELSE list[1] \o sep \o JoinWith(Tail(list), sep)

\* `${n}` of a non-negative integer
DigitChars == <<"0", "1", "2", "3", "4", "5", "6", "7", "8", "9">>
RECURSIVE NumberToString(_)
NumberToString(n) ==
    IF n < 10 THEN <<DigitChars[n + 1]>>
    ELSE NumberToString(n \div 10) \o <<DigitChars[(n % 10) + 1]>>

\* JSON.stringify of a string: quoted, with quotes and backslashes escaped
JsonString(s) ==
    <<"\"">>
    \o Concat([i \in 1..Len(s) |->
                 IF s[i] \in {"\"", "\\"} THEN <<"\\", s[i]>> ELSE <<s[i]>>])
    \o <<"\"">>
\* JSON.stringify of an object, given its properties in order as name and
\* optional JSON text: a property that is undefined is left out
JsonObject(props) ==
    LET kept == SelectSeq(props, LAMBDA p : p.json.set)
        text(p) == <<"\"", p.name, "\"", ":">> \o p.json.v
    IN <<"{">> \o JoinWith([i \in 1..Len(kept) |-> text(kept[i])], <<",">>) \o <<"}">>

\* the arguments of one call of a read: the search text, the page and the
\* category of a listing or search, the post, tags, limit and user of a
\* related-posts read, the additional parameters of a pagination key
KeyCall(query, page, categoryId, postId, tagIds, limit, userId, extra) ==
    [query |-> query, page |-> page, categoryId |-> categoryId,
     postId |-> postId, tagIds |-> tagIds, limit |-> limit,
     userId |-> userId, extra |-> extra]

\* JSON.stringify(params) of the pagination and filter parameters
JsonParams(c) ==
    JsonObject(<<
        [name |-> "page",
         json |-> IF c.page.set THEN Given(NumberToString(c.page.v)) ELSE Undefined],
        [name |-> "categoryId",
         json |-> IF c.categoryId.set THEN Given(JsonString(c.categoryId.v))
                  ELSE Undefined] >>)

\* createCachedFunction: [keyPrefix, ...args.map((a) => JSON.stringify(a))]
\* for the arguments (query, params) of getCachedPostSearch
cachedFunctionKey(c) ==
    << <<"posts-search">>, JsonString(c.query), JsonParams(c) >>

\* memoizedGetPaginated: `posts-paginated-${JSON.stringify(params)}`
paginatedMemoKey(c) == <<"posts-paginated", "-">> \o JsonParams(c)

\* memoizedSearch: `posts-search-${query}-${JSON.stringify(params)}`
searchMemoKey(c) == <<"posts-search", "-">> \o c.query \o <<"-">> \o JsonParams(c)

\* memoizedGetRelated:
\* `related-${postId}-${categoryId}-${tagIds.join(",")}-${limit}-${userId || "anon"}`
relatedMemoKey(c) ==
    <<"related", "-">> \o c.postId \o <<"-">> \o c.categoryId.v \o <<"-">>
    \o JoinWith(c.tagIds, <<",">>) \o <<"-">> \o NumberToString(c.limit)
    \o <<"-">>
    \o (IF c.userId.set /\ c.userId.v # <<>> THEN c.userId.v ELSE <<"anon">>)

\* entries.map(([key, value]) => `${key}:${value}`).join("-"), the entries
\* being sorted by key
entriesText(entries) ==
    JoinWith([i \in 1..Len(entries) |-> <<entries[i].key, ":">> \o entries[i].value],
             <<"-">>)

\* generatePaginationKey(baseKey, page, limit, additionalParams)
generatePaginationKey(c) ==
    LET params == entriesText(c.extra) IN
    <<"posts", "-", "page", ":">> \o NumberToString(c.page.v)
    \o <<"-", "limit", ":">> \o NumberToString(c.limit)
    \o (IF params # <<>> THEN <<"-">> \o params ELSE <<>>)

\* toLowerCase() of a character
LowerChar(ch) == IF ch = "C" THEN "c" ELSE ch
toLowerCase(s) == [i \in 1..Len(s) |-> LowerChar(s[i])]
\* \s of a regular expression
IsSpace(ch) == ch = " "
\* \w or - of a regular expression
IsWordOrDash(ch) == ch \in {"c", "C", "-", "_"}
\* trim()
RECURSIVE trimStart(_)
trimStart(s) ==
    IF s # <<>> /\ IsSpace(Head(s)) THEN trimStart(Tail(s)) ELSE s
RECURSIVE trimEnd(_)
trimEnd(s) ==
    IF s # <<>> /\ IsSpace(s[Len(s)]) THEN trimEnd(SubSeq(s, 1, Len(s) - 1)) ELSE s
trim(s) == trimEnd(trimStart(s))
\* replace(/\s+/g, "-")
RECURSIVE spacesToDash(_)
spacesToDash(s) ==
    IF s = <<>> THEN <<>>
    ELSE IF IsSpace(Head(s)) THEN <<"-">> \o spacesToDash(trimStart(s))
    ELSE <<Head(s)>> \o spacesToDash(Tail(s))
\* replace(/[^\w-]/g, "")
keepWordChars(s) == SelectSeq(s, IsWordOrDash)

\* generateSearchKey(query, filters), the filters being categoryId and page
generateSearchKey(c) ==
    LET normalizedQuery == keepWordChars(spacesToDash(trim(toLowerCase(c.query))))
        filters ==
            (IF c.categoryId.set THEN <<[key |-> "categoryId", value |-> c.categoryId.v]>>
             ELSE <<>>)
            \o (IF c.page.set THEN <<[key |-> "page", value |-> NumberToString(c.page.v)]>>
                ELSE <<>>)
        filterString == entriesText(filters)
    IN <<"search", "-">> \o normalizedQuery
       \o (IF filterString # <<>> THEN <<"-">> \o filterString ELSE <<>>)

\* the key generators
KeyGenerators ==
    { "createCachedFunction", "memoizedGetPaginated", "memoizedSearch",
      "memoizedGetRelated", "generatePaginationKey", "generateSearchKey" }
\* the key a generator derives from a call
cacheKeyOf(gen, c) ==
    CASE gen = "createCachedFunction"  -> cachedFunctionKey(c)
      [] gen = "memoizedGetPaginated"  -> paginatedMemoKey(c)
      [] gen = "memoizedSearch"        -> searchMemoKey(c)
      [] gen = "memoizedGetRelated"    -> relatedMemoKey(c)
      [] gen = "generatePaginationKey" -> generatePaginationKey(c)
      [] gen = "generateSearchKey"     -> generateSearchKey(c)

\* query.trim().split(/\s+/).filter(Boolean): the search terms
RECURSIVE searchTerms(_)
searchTerms(s) ==
    LET t == trimStart(s)
        n == IF \E i \in 1..Len(t) : IsSpace(t[i])
             THEN (CHOOSE i \in 1..Len(t) :
                      IsSpace(t[i]) /\ \A j \in 1..(i - 1) : ~IsSpace(t[j])) - 1
             ELSE Len(t)
    IN IF t = <<>> THEN {}
       ELSE {SubSeq(t, 1, n)} \cup searchTerms(SubSeq(t, n + 1, Len(t)))

\* what PostQueries makes of the arguments: the page with its default, the
\* category when it is truthy, the terms matched without regard to case, the
\* tags as a set, the user when it is truthy
queryOf(gen, c) ==
    LET page == IF c.page.set THEN c.page.v ELSE 1
        truthy(opt) == IF opt.set /\ opt.v # <<>> THEN opt ELSE Undefined
        listing == [page |-> page, categoryId |-> truthy(c.categoryId)]
        terms == {toLowerCase(t) : t \in searchTerms(c.query)}
    IN CASE gen = "memoizedGetPaginated" -> [listing |-> listing]
         [] gen = "generatePaginationKey" ->
                [page |-> page, limit |-> c.limit, extra |-> c.extra]
         [] gen = "memoizedGetRelated" ->
                [postId |-> c.postId, categoryId |-> c.categoryId,
                 tagIds |-> {c.tagIds[i] : i \in 1..Len(c.tagIds)},
                 limit |-> c.limit, userId |-> truthy(c.userId)]
         [] OTHER -> [terms |-> terms,
                      listing |-> IF terms = {}
                                  THEN [page |-> page, categoryId |-> Undefined]
                                  ELSE listing]

\* the search texts of the model
SearchTexts ==
    { <<"c">>, <<"C">>, <<"c", "+">>, <<"c", " ", "c">>, <<"c", "-", "c">>,
      <<" ", "c">>, <<"c", "_">>, <<>>, <<"\"">> }
\* page, undefined or a number
PageArgs == {NoNumber, Given(1), Given(2), Given(12)}
\* categoryId, undefined or a cuid
CategoryArgs == {Undefined, Given(<<"k1">>), Given(<<"k2">>)}
\* additionalParams, sorted by key
ExtraArgs ==
    { <<>>,
      <<[key |-> "a", value |-> <<"x">>]>>,
      <<[key |-> "a", value |-> <<"x">>], [key |-> "b", value |-> <<"x">>]>>,
      <<[key |-> "a", value |-> <<"x", "-", "b", ":", "x">>]>>,
      <<[key |-> "b", value |-> <<"x">>]>> }

\* the calls a generator is given
KeyCalls(gen) ==
    CASE gen \in {"createCachedFunction", "memoizedSearch", "generateSearchKey"} ->
            { KeyCall(q, p, k, <<>>, <<>>, 0, Undefined, <<>>) :
                q \in SearchTexts, p \in {NoNumber, Given(2)}, k \in {Undefined, Given(<<"k1">>)} }
      [] gen = "memoizedGetPaginated" ->
            { KeyCall(<<>>, p, k, <<>>, <<>>, 0, Undefined, <<>>) :
                p \in PageArgs, k \in CategoryArgs }
      [] gen = "memoizedGetRelated" ->
            { KeyCall(<<>>, NoNumber, Given(k), id, t, l, u, <<>>) :
                k \in {<<"k1">>, <<"k2">>}, id \in {<<"p1">>, <<"p2">>},
                t \in {<<>>, << <<"t1">> >>, << <<"t1">>, <<"t2">> >>},
                l \in {6, 12}, u \in {Undefined, Given(<<>>), Given(<<"u1">>)} }
      [] gen = "generatePaginationKey" ->
            { KeyCall(<<>>, Given(p), Undefined, <<>>, <<>>, l, Undefined, x) :
                p \in {1, 11}, l \in {2, 12}, x \in ExtraArgs }

\* no pair of calls compared yet
KeysIdle == [gen |-> "none"]

(***************************************************************************)
(* approvePostAction and rejectPostAction, statement by statement          *)
(***************************************************************************)
\* the requests that can be in progress at the same time
Callers == {"r1", "r2"}
\* the two moderation actions
ModerationActions == {"approvePostAction", "rejectPostAction"}
\* a request that runs no action
IdleCall == [pc |-> "idle", name |-> Null, session |-> Null, seen |-> Null]
IdleCalls == [r \in Callers |-> IdleCall]

\* the first half of approvePostAction / rejectPostAction: the session and
\* role checks, findUnique and the test of the status it returned
moderationChecks(name, s, checksPass, d) ==
    IF roleOf(s) = "none" THEN "redirect"
    ELSE IF roleOf(s) # "ADMIN" \/ ~checksPass \/ ~d.exists THEN "refused"
    ELSE IF d.status # "PENDING_APPROVAL" THEN "refused"
    ELSE "update"

\* the second half: prisma.post.update({ where: { id }, data }), which
\* throws when the row is gone, then revalidateCache
moderationUpdate(name, d) ==
    IF ~d.exists THEN refused(d)
    ELSE Ran("ok",
             [d EXCEPT !.isPublished = name = "approvePostAction",
                       !.status = IF name = "approvePostAction"
                                  THEN "APPROVED" ELSE "REJECTED"],
             <<"db", "revalidate">>, postWriteTags)

(***************************************************************************)
(* deletePostAction with its media rows and its files in storage           *)
(***************************************************************************)
\* the files of the post: two media rows (an image, a video) and the
\* preview image named by the post row
MediaPaths == {"image1", "video1"}
PreviewPath == "preview"
PostFiles == MediaPaths \cup {PreviewPath}
\* the media rows, the files present in storage, the post row's previewPath
mediaOf(st) == [media |-> st.media, files |-> st.files, preview |-> st.preview]
\* the seeded post has all of its files; was is the state before the last
\* post action
SeedStore ==
    [media |-> MediaPaths, files |-> PostFiles, preview |-> PreviewPath,
     was |-> [media |-> MediaPaths, files |-> PostFiles, preview |-> PreviewPath]]

\* the urls handed to deleteImage / deleteVideo: one per media row, and the
\* preview of the post row
deleteTargets(st) ==
    st.media \cup (IF st.preview # Null THEN {st.preview} ELSE {})
\* storage after Promise.allSettled: the targets are gone but for those
\* whose deletion failed
afterStorage(st, failing) == st.files \ (deleteTargets(st) \ failing)
\* the rows and files after a deletePostAction that reached its end
deleted(st, failing) ==
    [media |-> {}, files |-> afterStorage(st, failing), preview |-> Null,
     was |-> mediaOf(st)]

\* deletePostAction: the checks, the storage deletions (failures logged and
\* passed over), prisma.media.deleteMany, prisma.post.delete, revalidateCache;
\* the two prisma calls can throw
deletePostAction(s, checksPass, failing, mediaThrows, postThrows, d, st) ==
    LET body == postAction("deletePostAction", s, checksPass, FALSE, FALSE,
                           Null, FALSE, d)
        kept == [st EXCEPT !.was = mediaOf(st)]
    IN
    IF body.steps = <<>> THEN [ran |-> body, store |-> kept]
    ELSE IF st.media # {} /\ mediaThrows
    THEN [ran |-> Ran("failed", d, <<"storage">>, {}),
          store |-> [kept EXCEPT !.files = afterStorage(st, failing)]]
    ELSE IF postThrows
    THEN [ran |-> Ran("failed", d, <<"storage", "media">>, {}),
          store |-> [kept EXCEPT !.files = afterStorage(st, failing),
                                 !.media = {}]]
    ELSE [ran |-> body, store |-> deleted(st, failing)]

(***************************************************************************)
(* The slug of createPostAction and updatePostAction                       *)
(***************************************************************************)
\* the loop gives up when its counter passes this number
SlugLimit == 1000
\* the callers that can run at the same time; caller c writes post PostOf[c]
SlugCallers == {"c1", "c2"}
PostOf == [c \in SlugCallers |-> IF c = "c1" THEN "p1" ELSE "p2"]
SlugPosts == {PostOf[c] : c \in SlugCallers}
\* the candidates of one title are numbered: 0 is baseSlug, k is baseSlug-k;
\* NoSlug marks a post that is not stored
NoSlug == 0 - 1
\* the slug column: the posts of other authors hold the candidates below
\* others, and each post of SlugPosts holds own[p]
holders(sl, k) ==
    {p \in SlugPosts : sl.own[p] = k} \cup (IF k < sl.others THEN {"other"} ELSE {})
\* prisma.post.findFirst({ where: { slug, NOT: { id } } }) finds a post
slugFound(sl, k, id) == holders(sl, k) \ {id} # {}

\* the candidates the while (true) loop tests before its counter passes
\* SlugLimit are 0 .. SlugLimit - 1, in this order; firstFree is the first of
\* lo .. hi that findFirst does not find (NoSlug when there is none),
\* searched half by half from the left
RECURSIVE firstFree(_, _, _, _)
firstFree(sl, id, lo, hi) ==
    IF lo = hi
    THEN (IF slugFound(sl, lo, id) THEN NoSlug ELSE lo)
    ELSE LET mid == (lo + hi) \div 2
             left == firstFree(sl, id, lo, mid)
         IN IF left # NoSlug THEN left ELSE firstFree(sl, id, mid + 1, hi)

\* the while (true) loop: it breaks at the first candidate that is not
\* found, after one findFirst per candidate tested, and throws when all of
\* them are found
slugLoop(sl, id) ==
    LET k == firstFree(sl, id, 0, SlugLimit - 1) IN
    IF k = NoSlug
    THEN [thrown |-> TRUE, slug |-> NoSlug, probes |-> SlugLimit]
    ELSE [thrown |-> FALSE, slug |-> k, probes |-> k + 1]

\* the slug a call settles on; createPostAction has no post to leave out
uniqueSlug(sl, kind, id) ==
    slugLoop(sl, IF kind = "updatePostAction" THEN id ELSE Null)

\* the unique index on Post.slug is never checked
uniqueViolation_None(sl, k, id) == FALSE

\* the unique index on Post.slug refuses the write (P2002)
uniqueViolation(sl, k, id) == holders(sl, k) \ {id} # {}

\* prisma.post.create / prisma.post.update with the slug the loop settled on
slugWrite(sl, kind, id, k) ==
    IF kind = "updatePostAction" /\ sl.own[id] = NoSlug THEN [ok |-> FALSE, own |-> sl.own]
    ELSE IF uniqueViolation(sl, k, id) THEN [ok |-> FALSE, own |-> sl.own]
    ELSE [ok |-> TRUE, own |-> [sl.own EXCEPT ![id] = k]]

\* no call runs, no post of SlugPosts is stored
SlugIdleCall == [pc |-> "idle", kind |-> Null, slug |-> NoSlug, probes |-> 0]
NoSlugEvent ==
    [caller |-> Null, kind |-> Null, outcome |-> Null, slug |-> NoSlug,
     probes |-> 0, was |-> [p \in SlugPosts |-> NoSlug]]
SlugsIdle ==
    [others |-> 0, own |-> [p \in SlugPosts |-> NoSlug],
     calls |-> [c \in SlugCallers |-> SlugIdleCall], last |-> NoSlugEvent]

(***************************************************************************)
(* InfinitePostGrid (components/infinite-post-grid.tsx)                    *)
(***************************************************************************)
\* the pages the server has for one search, the search-parameter changes
\* followed, and the requests that can be in flight together
MaxPage == 3
MaxSearches == 2
MaxInFlight == 3
\* the component after mount: state, refs, the requests in flight (each with
\* the search it was built for, its page, and the currentPageValue its call
\* captured), and the pages requested for a search whose request did not fail
GridIdle ==
    [search |-> 1, posts |-> {<<1, 1>>}, currentPage |-> 1, hasNextPage |-> TRUE,
     isLoading |-> FALSE, error |-> FALSE, retried |-> FALSE,
     isLoadingRequestRef |-> FALSE, lastRequestPageRef |-> 0,
     hasNextPageRef |-> TRUE, currentPageRef |-> 1,
     inFlight |-> <<>>, asked |-> {}, twice |-> FALSE, last |-> "none"]

\* loadMorePosts up to its fetch: the guard on the three refs, then the
\* marks and the request
loadMorePosts(g) ==
    LET currentPageValue == g.currentPageRef
        nextPage == currentPageValue + 1
    IN
    IF g.isLoadingRequestRef \/ ~g.hasNextPageRef \/ g.lastRequestPageRef >= nextPage
    THEN [g EXCEPT !.last = "blocked"]
    ELSE [g EXCEPT !.lastRequestPageRef = nextPage,
                   !.isLoadingRequestRef = TRUE,
                   !.isLoading = TRUE,
                   !.error = FALSE,
                   !.inFlight = Append(@, [search |-> g.search, page |-> nextPage,
                                           currentPageValue |-> currentPageValue]),
                   !.twice = @ \/ <<g.search, nextPage>> \in g.asked,
                   !.asked = @ \cup {<<g.search, nextPage>>},
                   !.last = "requested"]

\* handleIntersection for an intersecting entry
handleIntersection(g) ==
    IF g.hasNextPageRef /\ ~g.isLoadingRequestRef
    THEN loadMorePosts(g) ELSE [g EXCEPT !.last = "blocked"]

\* a button that calls handleManualLoadMore is rendered and enabled
buttonEnabled(g) ==
    /\ g.error \/ (g.hasNextPage /\ ~g.isLoading)
    /\ ~(g.isLoading \/ g.isLoadingRequestRef)

\* the rest of loadMorePosts once fetch settles for request r: the posts, page
\* and hasNextPage of the response ("ok"), the fallback of a 500 response,
\* or the catch block; then finally; the two ref effects run on the render
settled(g, r, outcome, hasMore) ==
    LET done == [g EXCEPT !.isLoading = FALSE, !.isLoadingRequestRef = FALSE,
                          !.last = outcome]
    IN
    CASE outcome = "ok" ->
            [done EXCEPT !.posts = @ \cup {<<r.search, r.page>>},
                         !.currentPage = r.page, !.currentPageRef = r.page,
                         !.hasNextPage = hasMore, !.hasNextPageRef = hasMore]
      [] outcome = "fallback" ->
            [done EXCEPT !.hasNextPage = FALSE, !.hasNextPageRef = FALSE,
                         !.error = TRUE]
      [] outcome = "failed" ->
            [done EXCEPT !.error = TRUE, !.retried = TRUE,
                         !.lastRequestPageRef = r.currentPageValue,
                         !.asked = @ \ {<<r.search, r.page>>}]

\* the effect that runs when searchParamsKey changed
resetOnSearch(g, initialHasNextPage) ==
    [g EXCEPT !.search = @ + 1, !.posts = {<<g.search + 1, 1>>},
              !.currentPage = 1, !.hasNextPage = initialHasNextPage,
              !.error = FALSE, !.retried = FALSE,
              !.isLoadingRequestRef = FALSE, !.lastRequestPageRef = 0,
              !.hasNextPageRef = initialHasNextPage, !.currentPageRef = 1,
              !.last = "reset"]

\* a sequence without its i-th element
Without(seq, i) == SubSeq(seq, 1, i - 1) \o SubSeq(seq, i + 1, Len(seq))

(***************************************************************************)
(* memoize with pending, fulfilled and rejected promises                   *)
(***************************************************************************)
\* maxSize of the memoize wrapper, and the calls that miss (each runs fn and
\* makes one promise)
MemoMaxSize == 2
MaxPromises == 4
\* the keys that getKey gives
CallKeys == {"k1", "k2", "k3"}
\* promise 0 stands for no promise
NoPromise == 0
PromiseIds == 1..MaxPromises
\* the Map (a sequence of entries in insertion order), every promise made so
\* far with its key and state, and the last step
MemoIdle ==
    [cache |-> <<>>,
     promises |-> [p \in PromiseIds |-> [key |-> Null, state |-> "none"]],
     made |-> 0,
     last |-> [kind |-> "none", key |-> Null, promise |-> NoPromise,
               removed |-> NoPromise]]

\* the entries of a Map without those of key k
RECURSIVE mapDelete(_, _)
mapDelete(cache, k) ==
    IF cache = <<>> THEN <<>>
    ELSE IF Head(cache).key = k THEN mapDelete(Tail(cache), k)
    ELSE <<Head(cache)>> \o mapDelete(Tail(cache), k)
\* the promise stored under key k, NoPromise when cache.has(k) is false
RECURSIVE mapGet(_, _)
mapGet(cache, k) ==
    IF cache = <<>> THEN NoPromise
    ELSE IF Head(cache).key = k THEN Head(cache).promise
    ELSE mapGet(Tail(cache), k)

\* one call of the memoized function with key k: the stored promise, or the
\* eviction of the first key when the Map is full, fn(...args) and cache.set
memoized(m, k) ==
    LET stored == mapGet(m.cache, k)
        room == IF Len(m.cache) >= MemoMaxSize THEN Tail(m.cache) ELSE m.cache
        id == m.made + 1
    IN
    IF stored # NoPromise
    THEN [m EXCEPT !.last = [kind |-> "hit", key |-> k, promise |-> stored,
                             removed |-> NoPromise]]
    ELSE [m EXCEPT !.cache = Append(room, [key |-> k, promise |-> id]),
                   !.promises[id] = [key |-> k, state |-> "pending"],
                   !.made = id,
                   !.last = [kind |-> "miss", key |-> k, promise |-> id,
                             removed |-> NoPromise]]

\* the promise of fn is fulfilled: the entry stays
fulfilled(m, id) ==
    [m EXCEPT !.promises[id].state = "fulfilled",
              !.last = [kind |-> "fulfilled", key |-> m.promises[id].key,
                        promise |-> id, removed |-> NoPromise]]

\* the promise of fn rejects: the catch handler runs cache.delete(key)
rejected(m, id) ==
    LET k == m.promises[id].key IN
    [m EXCEPT !.cache = mapDelete(m.cache, k),
              !.promises[id].state = "rejected",
              !.last = [kind |-> "rejected", key |-> k, promise |-> id,
                        removed |-> mapGet(m.cache, k)]]

(***************************************************************************)
(* cacheStore: MemoryCache and RedisCache (lib/cache.ts)                   *)
(***************************************************************************)
\* the clock steps the store is followed for; one step is half a second
MaxStoreTicks == 3
StoreTickMs == MsPerSec \div 2
\* the values and the ttl (in seconds) given to set
StoreValues == {"v1", "v2"}
StoreTtls == {1}
\* a key without entry, and an entry
NoEntry == [has |-> FALSE, value |-> Null, expires |-> 0]
Entry(value, expires) == [has |-> TRUE, value |-> value, expires |-> expires]

\* const cacheStore = REDIS_URL || NODE_ENV === "development"
\*     ? new RedisCache() : new MemoryCache()
selectStore(redisUrl, e) ==
    IF redisUrl \/ e.NODE_ENV = "development" THEN "redis" ELSE "memory"

\* RedisCache.getRedisConfig(): a configuration when there is a url
getRedisConfig(redisUrl, e) == redisUrl \/ e.NODE_ENV = "development"

\* RedisCache._initialize(): null in the Edge runtime, when ioredis cannot
\* be imported and without configuration; a client otherwise
initialize(c, e) ==
    IF c.runtime = "edge" THEN "null"
    ELSE IF ~c.ioredis THEN "null"
    ELSE IF getRedisConfig(c.redisUrl, e) THEN "client" ELSE "null"

\* RedisCache.getRedis(): the client, initialized on first use
getRedis(c, e) == IF c.client = "uninit" THEN initialize(c, e) ELSE c.client

\* MemoryCache.get: null and the entry deleted when it is absent or
\* expires < Date.now()
MemoryGet(entry, t) ==
    IF ~entry.has \/ entry.expires < t
    THEN [result |-> Null, entry |-> NoEntry]
    ELSE [result |-> entry.value, entry |-> entry]
\* MemoryCache.set
MemorySet(value, ttl, t) == Entry(value, t + ttl * MsPerSec)

\* the Redis server's GET: a key set with SETEX is gone once its ttl passed
ServerGet(entry, t) ==
    IF ~entry.has \/ entry.expires <= t THEN Null ELSE entry.value

\* cacheStore.get(key) at time t
storeGet(c, e, t) ==
    IF c.store = "memory"
    THEN LET g == MemoryGet(c.memory, t) IN
         [c EXCEPT !.memory = g.entry,
                   !.last = [op |-> "get", result |-> g.result, at |-> t]]
    ELSE LET redis == getRedis(c, e) IN
         [c EXCEPT !.client = redis,
                   !.last = [op |-> "get", at |-> t,
                             result |-> IF redis = "null" \/ ~c.reachable
                                        THEN Null ELSE ServerGet(c.server, t)]]

\* cacheStore.set(key, value, ttl) at time t
storeSet(c, e, value, ttl, t) ==
    LET said == [c EXCEPT !.told = [op |-> "set", value |-> value,
                                    until |-> t + ttl * MsPerSec],
                          !.last = [op |-> "set", result |-> Null, at |-> t]]
    IN
    IF c.store = "memory"
    THEN [said EXCEPT !.memory = MemorySet(value, ttl, t)]
    ELSE LET redis == getRedis(c, e) IN
         IF redis = "null" \/ ~c.reachable
         THEN [said EXCEPT !.client = redis]
         ELSE [said EXCEPT !.client = redis,
                           !.server = Entry(value, t + ttl * MsPerSec)]

\* cacheStore.del(key) at time t
storeDel(c, e, t) ==
    LET said == [c EXCEPT !.told = [op |-> "del", value |-> Null, until |-> 0],
                          !.last = [op |-> "del", result |-> Null, at |-> t]]
    IN
    IF c.store = "memory"
    THEN [said EXCEPT !.memory = NoEntry]
    ELSE LET redis == getRedis(c, e) IN
         IF redis = "null" \/ ~c.reachable
         THEN [said EXCEPT !.client = redis]
         ELSE [said EXCEPT !.client = redis, !.server = NoEntry]

\* before lib/cache.ts is loaded; told is the last set or del the caller made
StoreIdle ==
    [store |-> "none", redisUrl |-> FALSE, runtime |-> "nodejs", ioredis |-> TRUE,
     client |-> "uninit", reachable |-> TRUE, memory |-> NoEntry,
     server |-> NoEntry, ticks |-> 0,
     told |-> [op |-> "none", value |-> Null, until |-> 0],
     last |-> [op |-> "none", result |-> Null, at |-> 0]]

(***************************************************************************)
(* The CSRF guard as a state machine: calls made within one request share  *)
(* its cookie store; between requests the browser may lose or alter        *)
(* cookies.                                                                *)
(***************************************************************************)
NoCall == [op |-> "none", arg |-> Null, result |-> Null]
NoOp == [op |-> "none", arg |-> Null, result |-> Null,
         before |-> NoCookies, prev |-> NoCall]

Call(op, arg, result) ==
    [op |-> op, arg |-> arg, result |-> result, before |-> cookies,
     prev |-> [op |-> lastOp.op, arg |-> lastOp.arg, result |-> lastOp.result]]

MwIdle == [kind |-> "none"]
ActIdle == [kind |-> "none"]

Init ==
    /\ isProduction \in BOOLEAN
    /\ cookies = NoCookies
    /\ ctx = "rw"
    /\ lastOp = NoOp
    /\ now = 0
    /\ buckets = NoBuckets
    /\ mw = MwIdle
    /\ act = ActIdle
    /\ pass = PassIdle
    /\ env = StartEnv(isProduction)
    /\ hdr = HdrIdle
    /\ crypto = "ok"
    /\ db = SeedPost
    /\ dataCache = NoEntries
    /\ memo = NoMemo
    /\ ev = EvIdle
    /\ fn = "none"
    /\ writes = 0
    /\ api = ApiIdle
    /\ keys = KeysIdle
    /\ mod = IdleCalls
    /\ store = SeedStore
    /\ slugs = SlugsIdle
    /\ grid = GridIdle
    /\ mz = MemoIdle
    /\ cs = StoreIdle

\* a new request arrives with the browser's cookies
CsrfNewRequest ==
    /\ ctx' \in Contexts
    /\ lastOp' = NoOp
    /\ UNCHANGED <<isProduction, cookies, now, buckets, mw, act, ext>>

\* the browser drops one cookie (expiry, eviction, manual deletion)
CookieLost ==
    \E n \in CookieNames :
        /\ cookies[n] # Absent
        /\ cookies' = [cookies EXCEPT ![n] = Absent]
        /\ lastOp' = NoOp
        /\ UNCHANGED <<isProduction, ctx, now, buckets, mw, act, ext>>

\* the client sends a cookie value of its own choosing
ClientSetsCookie ==
    \E n \in CookieNames, v \in Submittable :
        /\ cookies' = [cookies EXCEPT ![n] = v]
        /\ lastOp' = NoOp
        /\ UNCHANGED <<isProduction, ctx, now, buckets, mw, act, ext>>

CsrfSetToken ==
    \E t \in GenTokens :
        /\ cookies' = setToken(cookies, ctx, t).cookies
        /\ lastOp' = Call("setToken", t,
                          IF setToken(cookies, ctx, t).threw THEN "threw" ELSE "void")
        /\ UNCHANGED <<isProduction, ctx, now, buckets, mw, act, ext>>

CsrfGetTokenFromCookie ==
    /\ lastOp' = Call("getTokenFromCookie", Null, getTokenFromCookie(cookies, ctx))
    /\ UNCHANGED <<isProduction, cookies, ctx, now, buckets, mw, act, ext>>

CsrfValidateToken ==
    \E s \in Submittable \cup {Null}, newToken \in GenTokens :
        /\ cookies' = validateToken(cookies, ctx, s, newToken).cookies
        /\ lastOp' = Call("validateToken", s,
                          BoolStr(validateToken(cookies, ctx, s, newToken).result))
        /\ UNCHANGED <<isProduction, ctx, now, buckets, mw, act, ext>>

CsrfGetOrCreateToken ==
    \E newToken \in GenTokens, fallbackToken \in GenTokens :
        /\ cookies' = getOrCreateToken(cookies, ctx, newToken, fallbackToken).cookies
        /\ lastOp' = Call("getOrCreateToken", Null,
                          getOrCreateToken(cookies, ctx, newToken, fallbackToken).token)
        /\ UNCHANGED <<isProduction, ctx, now, buckets, mw, act, ext>>

CsrfClearTokens ==
    /\ cookies' = clearTokens(cookies, ctx)
    /\ lastOp' = Call("clearTokens", Null, "void")
    /\ UNCHANGED <<isProduction, ctx, now, buckets, mw, act, ext>>

NextCsrf ==
    \/ CsrfNewRequest
    \/ CookieLost
    \/ ClientSetsCookie
    \/ CsrfSetToken
    \/ CsrfGetTokenFromCookie
    \/ CsrfValidateToken
    \/ CsrfGetOrCreateToken
    \/ CsrfClearTokens

SpecCsrf == Init /\ [][NextCsrf]_vars


(***************************************************************************)
(* Properties of the CSRF guard                                            *)
(***************************************************************************)
\* the token the environment reads from a readable cookie store, or Null
StoredToken(ck) == getTokenFromCookie(ck, "rw")

\* C2: with the primary, backup and debug cookies all absent, validateToken
\* returns false for every submitted value, whether the recovery token was
\* stored or storing it failed
C2_RecoveryNeverPasses ==
    (lastOp.op = "validateToken" /\ lastOp.before = NoCookies)
        => lastOp.result = "false"

\* C2 witness: recovery stored exactly the token that was submitted, and the
\* call still returned false
C2_Witness ==
    /\ lastOp.op = "validateToken"
    /\ lastOp.before = NoCookies
    /\ lastOp.arg \in GenTokens
    /\ cookies["primary"] = lastOp.arg
    /\ lastOp.result = "false"

\* C3: validateToken called right after a successful setToken(t) in the same
\* request returns true for t and false for every other submission
C3_RoundTrip ==
    (lastOp.op = "validateToken" /\ lastOp.prev.op = "setToken"
        /\ lastOp.prev.result = "void")
        => lastOp.result = BoolStr(lastOp.arg = lastOp.prev.arg)

\* C3 witness: setToken(t) then validateToken(t) returned true
C3_Witness ==
    /\ lastOp.op = "validateToken"
    /\ lastOp.prev.op = "setToken"
    /\ lastOp.prev.result = "void"
    /\ lastOp.arg = lastOp.prev.arg
    /\ lastOp.result = "true"

\* C4: validateToken leaves the cookies as they were when the submission is
\* null or empty and when a stored token exists; the only change it makes is
\* from no stored token to a stored token, on a non-empty submission
C4_ValidateFrame ==
    lastOp.op = "validateToken" =>
        /\ (lastOp.arg \in {Null, ""} => cookies = lastOp.before)
        /\ (StoredToken(lastOp.before) # Null => cookies = lastOp.before)
        /\ (cookies # lastOp.before =>
                /\ StoredToken(lastOp.before) = Null
                /\ lastOp.arg \notin {Null, ""}
                /\ StoredToken(cookies) # Null)

\* C4 witness: a matching submission was accepted and the cookies are the
\* ones the request came with
C4_Witness ==
    /\ lastOp.op = "validateToken"
    /\ StoredToken(lastOp.before) # Null
    /\ lastOp.result = "true"
    /\ cookies = lastOp.before

\* C5 as stated: primary if present, else backup, and null whenever both are
\* absent, in every environment (read with a readable store, a cookie with
\* an empty value counted as absent)
C5_Original ==
    (lastOp.op = "getTokenFromCookie" /\ ctx # "none") =>
        lastOp.result =
            IF CookieValue(lastOp.before, "primary") # Null
            THEN CookieValue(lastOp.before, "primary")
            ELSE CookieValue(lastOp.before, "backup")

\* C5 amended: with a readable store getTokenFromCookie returns the primary
\* cookie's value if it is present and non-empty, else the backup cookie's
\* such value; with neither it returns null in production and the debug
\* cookie's value (null if absent or empty) outside production; when
\* reading the store throws it returns null
C5_Retrieve ==
    lastOp.op = "getTokenFromCookie" =>
        lastOp.result =
            IF ctx = "none" THEN Null
            ELSE IF lastOp.before["primary"] \notin {Absent, ""}
            THEN lastOp.before["primary"]
            ELSE IF lastOp.before["backup"] \notin {Absent, ""}
            THEN lastOp.before["backup"]
            ELSE IF isProduction THEN Null
            ELSE IF lastOp.before["debug"] \notin {Absent, ""}
            THEN lastOp.before["debug"]
            ELSE Null

\* C5 witness: outside production, primary and backup absent, the debug
\* cookie's token was returned
C5_Witness ==
    /\ lastOp.op = "getTokenFromCookie"
    /\ ~isProduction
    /\ lastOp.before["primary"] = Absent
    /\ lastOp.before["backup"] = Absent
    /\ lastOp.result \in GenTokens
    /\ lastOp.result = lastOp.before["debug"]

\* C14 as stated: the token getOrCreateToken returns is the token in the
\* CSRF cookies after the call, and validateToken of it is true
C14_Original ==
    lastOp.op = "getOrCreateToken" =>
        /\ StoredToken(cookies) = lastOp.result
        /\ validateToken(cookies, ctx, lastOp.result, lastOp.result).result

\* the last getOrCreateToken could not persist a token: the store cannot be
\* read, or holds no token and cannot be written
NotPersistable ==
    ctx = "none" \/ (ctx = "ro" /\ StoredToken(lastOp.before) = Null)

\* C14 amended: a stored token that can be read is returned unchanged, the
\* cookies left alone, so a second call in the request returns the same
\* token; with no stored token and a writable store the new token is put in
\* the primary and backup cookies before it is returned and validateToken of
\* it is true; when the store cannot be read, or holds no token and cannot
\* be written, the token returned is a fallback that is not persisted: the
\* cookies are unchanged and validateToken of it is false
C14_GetOrCreate ==
    lastOp.op = "getOrCreateToken" =>
        /\ (ctx # "none" /\ StoredToken(lastOp.before) # Null) =>
               /\ lastOp.result = StoredToken(lastOp.before)
               /\ cookies = lastOp.before
        /\ (ctx = "rw" /\ StoredToken(lastOp.before) = Null) =>
               /\ lastOp.result \in GenTokens
               /\ cookies["primary"] = lastOp.result
               /\ cookies["backup"] = lastOp.result
        /\ ~NotPersistable =>
               /\ validateToken(cookies, ctx, lastOp.result, lastOp.result).result
               /\ lastOp.prev.op = "getOrCreateToken"
                      => lastOp.result = lastOp.prev.result
        /\ NotPersistable =>
               /\ lastOp.result \in GenTokens
               /\ cookies = lastOp.before
               /\ ~validateToken(cookies, ctx, lastOp.result, lastOp.result).result

\* C14 witness: in a request that cannot set cookies and carries no token,
\* getOrCreateToken returned a token and the cookies are still empty
C14_Witness ==
    /\ lastOp.op = "getOrCreateToken"
    /\ ctx = "ro"
    /\ lastOp.before = NoCookies
    /\ lastOp.result \in GenTokens
    /\ cookies = NoCookies

(***************************************************************************)
(* The middleware as a state machine: one pass per request; between        *)
(* requests the clock advances, tokens are issued by page renders and      *)
(* cookies get lost.                                                       *)
(***************************************************************************)
\* a request arrives and the middleware answers it; the cookie context and
\* the generated token are inputs only of a pass that calls validateToken
MwRequest ==
    /\ mw.kind = "none"
    /\ \E req \in Requests, cx \in Contexts, newToken \in GenTokens :
        LET out == middleware(req, cookies, cx, buckets, now, newToken) IN
        /\ ~callsValidateToken(req) => (cx = "rw" /\ newToken = TokenNames[1])
        /\ (underApi(req.path) /\ now < buckets[req.clientId].resetTime)
               => buckets[req.clientId].count < 2 * RateLimit
        /\ cookies' = out.cookies
        /\ buckets' = out.buckets
        /\ mw' = [kind |-> "answered", req |-> req, ctx |-> cx, at |-> now,
                  bucketBefore |-> buckets[req.clientId],
                  cookiesBefore |-> cookies,
                  resp |-> out.resp]
        /\ UNCHANGED <<isProduction, ctx, lastOp, now, act, ext>>

\* the response leaves; the next request can come
MwDone ==
    /\ mw.kind = "answered"
    /\ mw' = MwIdle
    /\ UNCHANGED <<isProduction, cookies, ctx, lastOp, now, buckets, act, ext>>

\* time passes; the store expires the buckets whose window is over
Tick ==
    /\ mw.kind = "none"
    /\ now < MaxTicks * TickMs
    /\ now' = now + TickMs
    /\ buckets' = [c \in Clients |->
                     IF now' >= buckets[c].resetTime THEN EmptyBucket ELSE buckets[c]]
    /\ UNCHANGED <<isProduction, cookies, ctx, lastOp, mw, act, ext>>

\* a page render or the token endpoint issues the session's token
PageIssuesToken ==
    /\ mw.kind = "none"
    /\ \E newToken \in GenTokens, fallbackToken \in GenTokens :
        /\ cookies' = getOrCreateToken(cookies, "rw", newToken, fallbackToken).cookies
        /\ cookies' # cookies
        /\ UNCHANGED <<isProduction, ctx, lastOp, now, buckets, mw, act, ext>>

\* the browser drops one cookie between two requests
BrowserLosesCookie ==
    /\ mw.kind = "none"
    /\ \E n \in CookieNames :
        /\ cookies[n] # Absent
        /\ cookies' = [cookies EXCEPT ![n] = Absent]
        /\ UNCHANGED <<isProduction, ctx, lastOp, now, buckets, mw, act, ext>>

NextMw ==
    \/ MwRequest
    \/ MwDone
    \/ Tick
    \/ PageIssuesToken
    \/ BrowserLosesCookie

SpecMw == Init /\ [][NextMw]_vars

(***************************************************************************)
(* Properties of the middleware                                            *)
(***************************************************************************)
\* the prefixes the CSRF stage is said to exempt
ExemptPrefixes ==
    { <<"/", "api", "/", "webhooks", "/">>,
      <<"/", "api", "/", "upload", "/">>,
      <<"/", "api", "/", "media", "/", "resolve">>,
      <<"/", "auth", "/", "callback">>,
      <<"/", "api", "/", "auth", "/">>,
      <<"/", "api", "/", "security", "/", "csp-report">> }
IsExempt(path) == \E prefix \in ExemptPrefixes : StartsWith(path, prefix)
IsApi(path) == StartsWith(path, <<"/", "api", "/">>)
IsStateChanging(method) == method \in {"POST", "PUT", "PATCH", "DELETE"}
Rejected403(code) == mw.resp.kind = "json" /\ mw.resp.status = 403 /\ mw.resp.code = code

\* C1 as stated: every state-changing request to a non-exempt path, under
\* /api/ or not, is forwarded only with a token validateToken accepted, and
\* gets 403 CSRF_TOKEN_MISSING without a token and 403 CSRF_TOKEN_INVALID
\* with an invalid one (requests the session step redirected set aside)
C1_Original ==
    (mw.kind = "answered" /\ ~mw.req.sessionRedirect
        /\ IsStateChanging(mw.req.method) /\ ~IsExempt(mw.req.path)) =>
        /\ mw.resp.kind = "next" =>
               (mw.req.csrfHeader # Null /\ mw.resp.csrfResult = "true")
        /\ mw.req.csrfHeader = Null => Rejected403("CSRF_TOKEN_MISSING")
        /\ (mw.req.csrfHeader # Null /\ mw.resp.csrfResult = "false")
               => Rejected403("CSRF_TOKEN_INVALID")

\* C1 amended: a state-changing request to a non-exempt path under /api/
\* that the session step did not redirect is forwarded only with a
\* non-empty x-csrf-token that validateToken accepted; without the header or
\* with an empty one it gets 403 CSRF_TOKEN_MISSING, with a token that
\* validateToken refuses 403 CSRF_TOKEN_INVALID. For a path outside /api/
\* the middleware never calls validateToken.
C1_ApiCsrf ==
    (mw.kind = "answered" /\ ~mw.req.sessionRedirect) =>
        /\ (IsStateChanging(mw.req.method) /\ ~IsExempt(mw.req.path)
                /\ IsApi(mw.req.path)) =>
               /\ mw.resp.kind = "next" =>
                      /\ mw.req.csrfHeader \notin {Null, ""}
                      /\ mw.resp.csrfCalls = 1
                      /\ mw.resp.csrfResult = "true"
               /\ mw.req.csrfHeader \in {Null, ""}
                      => (Rejected403("CSRF_TOKEN_MISSING") /\ mw.resp.csrfCalls = 0)
               /\ mw.req.csrfHeader \notin {Null, ""} =>
                      /\ mw.resp.csrfCalls = 1
                      /\ mw.resp.csrfResult = "false"
                             <=> Rejected403("CSRF_TOKEN_INVALID")
        /\ ~IsApi(mw.req.path) =>
               (mw.resp.csrfCalls = 0 /\ mw.resp.kind = "next")

\* C1 witness: a POST to /api/posts carrying the stored token was forwarded
C1_Witness ==
    /\ mw.kind = "answered"
    /\ mw.req.method = "POST"
    /\ mw.req.path = <<"/", "api", "/", "posts">>
    /\ mw.req.csrfHeader \in GenTokens
    /\ mw.resp.csrfResult = "true"
    /\ mw.resp.kind = "next"

\* the request passed the session step and the CSRF stage
PassedEarlierStages ==
    /\ ~mw.req.sessionRedirect
    /\ mw.resp.code \notin {"CSRF_TOKEN_MISSING", "CSRF_TOKEN_INVALID"}

\* C7: a request under /api/ that passed the earlier stages consults the
\* limiter exactly once, its response carries the rate-limit headers either
\* way, and it is answered 429, with Retry-After computed from the bucket's
\* resetTime, exactly when the limiter said allowed=false; every other
\* request does not consult the limiter
C7_RateLimitStage ==
    mw.kind = "answered" =>
        /\ (IsApi(mw.req.path) /\ PassedEarlierStages) =>
               /\ mw.resp.rlCalls = 1
               /\ mw.resp.rlHeaders
               /\ mw.resp.rlAllowed \in {"true", "false"}
               /\ mw.resp.status = 429 <=> mw.resp.rlAllowed = "false"
               /\ mw.resp.status = 429 =>
                      /\ mw.resp.kind = "json"
                      /\ mw.resp.retryAfter =
                             CeilDiv(buckets[mw.req.clientId].resetTime - mw.at, MsPerSec)
                      /\ mw.resp.retryAfter > 0
               /\ mw.resp.status # 429 =>
                      (mw.resp.kind = "next" /\ mw.resp.retryAfter = -1)
        /\ ~(IsApi(mw.req.path) /\ PassedEarlierStages) =>
               (mw.resp.rlCalls = 0 /\ ~mw.resp.rlHeaders /\ mw.resp.status # 429)

\* C7 witness: an /api/ request the limiter refused was answered 429 with
\* the rate-limit headers and Retry-After
C7_Witness ==
    /\ mw.kind = "answered"
    /\ IsApi(mw.req.path)
    /\ mw.resp.rlCalls = 1
    /\ mw.resp.rlAllowed = "false"
    /\ mw.resp.status = 429
    /\ mw.resp.rlHeaders
    /\ mw.resp.retryAfter > 0

\* the place of a counted request in its client's window
OrdinalInWindow ==
    IF mw.at < mw.bucketBefore.resetTime THEN mw.bucketBefore.count + 1 ELSE 1

C8_Threshold ==
    (mw.kind = "answered" /\ mw.resp.rlCalls = 1) =>
        /\ buckets[mw.req.clientId].count = OrdinalInWindow
        /\ OrdinalInWindow <= RateLimit =>
               (mw.resp.rlAllowed = "true" /\ mw.resp.kind = "next")
        /\ OrdinalInWindow > RateLimit =>
               (mw.resp.rlAllowed = "false" /\ mw.resp.status = 429)

C8_CounterMonotone ==
    \A c \in Clients :
        now' < buckets[c].resetTime => buckets'[c].count >= buckets[c].count

\* C8: of the requests of one client counted in one window the first
\* RateLimit are allowed and every later one is refused and answered 429; a
\* request after the window's end is the first of a new window and allowed;
\* the counter of a window that has not ended never decreases
C8_RateLimitThreshold == [](C8_Threshold) /\ [][C8_CounterMonotone]_vars

\* C8 witness: request number RateLimit + 1 of a window was answered 429
C8_Witness ==
    /\ mw.kind = "answered"
    /\ mw.resp.rlCalls = 1
    /\ mw.at < mw.bucketBefore.resetTime
    /\ mw.bucketBefore.count = RateLimit
    /\ mw.resp.status = 429

\* C9: a state-changing request to an exempt prefix is never rejected by
\* the CSRF stage and validateToken is not called for it, with or without a
\* token; under /api/ (and not redirected) it is counted by the limiter and
\* refused with 429 beyond the limit
C9_ExemptPaths ==
    (mw.kind = "answered" /\ IsStateChanging(mw.req.method)
        /\ IsExempt(mw.req.path)) =>
        /\ mw.resp.status # 403
        /\ mw.resp.csrfCalls = 0
        /\ (IsApi(mw.req.path) /\ ~mw.req.sessionRedirect) =>
               /\ mw.resp.rlCalls = 1
               /\ buckets[mw.req.clientId].count = OrdinalInWindow
               /\ mw.resp.status = 429 <=> OrdinalInWindow > RateLimit

\* C9 witness: a webhook POST without a token went past the CSRF stage and
\* was refused by the limiter
C9_Witness ==
    /\ mw.kind = "answered"
    /\ mw.req.method = "POST"
    /\ mw.req.path = <<"/", "api", "/", "webhooks", "/", "stripe">>
    /\ mw.req.csrfHeader = Null
    /\ mw.resp.rlCalls = 1
    /\ mw.resp.status = 429

\* C10: when updateSession's response carries a Location header the
\* middleware returns it as it is: no nonce cookie, no x-nonce, no security
\* headers, validateToken not called, limiter not consulted, CSRF cookies
\* and bucket untouched
C10_RedirectUnmodified ==
    (mw.kind = "answered" /\ mw.req.sessionRedirect) =>
        /\ mw.resp.kind = "session"
        /\ ~mw.resp.nonceCookie
        /\ ~mw.resp.xNonce
        /\ ~mw.resp.securityHeaders
        /\ mw.resp.csrfCalls = 0
        /\ mw.resp.rlCalls = 0
        /\ ~mw.resp.rlHeaders
        /\ cookies = mw.cookiesBefore
        /\ buckets[mw.req.clientId] = mw.bucketBefore

\* C10 witness: a redirected POST to /api/posts without a token, from a
\* client whose window is already full
C10_Witness ==
    /\ mw.kind = "answered"
    /\ mw.req.sessionRedirect
    /\ mw.req.method = "POST"
    /\ mw.req.path = <<"/", "api", "/", "posts">>
    /\ mw.req.csrfHeader = Null
    /\ mw.at < mw.bucketBefore.resetTime
    /\ mw.bucketBefore.count >= RateLimit
    /\ mw.resp.kind = "session"

(***************************************************************************)
(* Server action calls as a state machine                                  *)
(***************************************************************************)
\* a client invokes a server action; a FormData with a csrf_token field is
\* an input only of the wrapped actions
ServerActionCall ==
    /\ act.kind = "none"
    /\ \E name \in ServerActions, hasFormData \in BOOLEAN,
          token \in Submittable \cup {Null}, role \in Roles,
          checksPass \in BOOLEAN, cx \in Contexts, newToken \in GenTokens :
        LET out == serverAction(name, hasFormData, token, role, checksPass,
                                cookies, cx, newToken) IN
        /\ name \notin wrappedActions =>
               (~hasFormData /\ token = Null /\ cx = "rw" /\ newToken = TokenNames[1])
        /\ ~hasFormData => (token = Null /\ cx = "rw" /\ newToken = TokenNames[1])
        /\ cookies' = out.gate.cookies
        /\ act' = [kind |-> "called", name |-> name, hasFormData |-> hasFormData,
                   token |-> token, role |-> role, checksPass |-> checksPass,
                   ctx |-> cx, csrfCalls |-> out.gate.csrfCalls,
                   csrfResult |-> out.gate.csrfResult, error |-> out.gate.error,
                   wrote |-> out.wrote]
        /\ UNCHANGED <<isProduction, ctx, lastOp, now, buckets, mw, ext>>

\* the call returns
ServerActionReturn ==
    /\ act.kind = "called"
    /\ act' = ActIdle
    /\ UNCHANGED <<isProduction, cookies, ctx, lastOp, now, buckets, mw, ext>>

NextAct ==
    \/ ServerActionCall
    \/ ServerActionReturn
    \/ (act.kind = "none" /\ PageIssuesToken)
    \/ (act.kind = "none" /\ BrowserLosesCookie)

SpecAct == Init /\ [][NextAct]_vars

(***************************************************************************)
(* Properties of the server actions                                        *)
(***************************************************************************)
\* C6: a server action that mutates data writes to the database only after
\* validateToken returned true for that call
C6_WriteOnlyAfterCsrf ==
    (act.kind = "called" /\ act.wrote) =>
        (act.csrfCalls = 1 /\ act.csrfResult = "true")

(***************************************************************************)
(* The header composer as a state machine: the process is deployed with    *)
(* some environment and composes header bundles for the nonces it is given *)
(***************************************************************************)
\* the process restarts with another environment
Deploy ==
    \E e \in Envs :
        /\ env' = e
        /\ isProduction' = (e.NODE_ENV = "production")
        /\ hdr' = HdrIdle
        /\ UNCHANGED <<cookies, ctx, lastOp, now, buckets, mw, act, pass, more>>

\* SecurityHeaders.getSecurityHeaders(nonce)
ComposeHeaders ==
    \E nonce \in NonceArgs :
        /\ hdr' = [kind |-> "composed", nonce |-> nonce,
                   headers |-> getSecurityHeaders(nonce, env)]
        /\ UNCHANGED <<core, pass, env, more>>

NextHeaders ==
    \/ Deploy
    \/ ComposeHeaders

SpecHeaders == Init /\ [][NextHeaders]_vars

(***************************************************************************)
(* Properties of the header composer                                       *)
(***************************************************************************)
\* a nonce was supplied: the argument is a non-empty string
NonceSupplied == hdr.nonce # Null /\ hdr.nonce # ""
IsDevelopment == env.NODE_ENV = "development"
NonceSource(n) == <<"'nonce-", n, "'">>

\* C15: script-src always contains 'self' and the static allow-list; it
\* contains 'nonce-<value>' (for the supplied value and no other) and
\* 'strict-dynamic' exactly when a nonce is supplied, 'unsafe-inline' exactly
\* when no nonce is supplied in development, and 'unsafe-eval' exactly in
\* development
C15_ScriptSrc ==
    hdr.kind = "composed" =>
        LET S == Srcs(hdr.headers.csp.scriptSrc) IN
        /\ <<"'self'">> \in S
        /\ \A i \in 1..Len(scriptSources) : <<scriptSources[i]>> \in S
        /\ \A n \in Nonces :
               NonceSource(n) \in S <=> (NonceSupplied /\ n = hdr.nonce)
        /\ <<"'strict-dynamic'">> \in S <=> NonceSupplied
        /\ <<"'unsafe-inline'">> \in S <=> (~NonceSupplied /\ IsDevelopment)
        /\ <<"'unsafe-eval'">> \in S <=> IsDevelopment

\* C15 witness: a development bundle composed with a nonce carries the
\* nonce, 'strict-dynamic' and 'unsafe-eval' and no 'unsafe-inline'
C15_Witness ==
    /\ hdr.kind = "composed"
    /\ IsDevelopment
    /\ hdr.nonce \in Nonces
    /\ NonceSource(hdr.nonce) \in Srcs(hdr.headers.csp.scriptSrc)
    /\ <<"'unsafe-eval'">> \in Srcs(hdr.headers.csp.scriptSrc)
    /\ <<"'unsafe-inline'">> \notin Srcs(hdr.headers.csp.scriptSrc)

\* the entries of img-src and connect-src that stand for optional variable v
EntriesOf(v) ==
    { d \in {hdr.headers.csp.imgSrc[i] : i \in 1..Len(hdr.headers.csp.imgSrc)}
            \cup {hdr.headers.csp.connectSrc[i] :
                     i \in 1..Len(hdr.headers.csp.connectSrc)} :
        d.from = v }

\* C16 as stated: an optional variable that is unset has no entry in
\* img-src or connect-src, neither its origin nor anything in its place
C16_Original ==
    hdr.kind = "composed" =>
        \A v \in OptionalVars :
            ~Truthy(env.origins[v]) => EntriesOf(v) = {}

\* C16 amended: an unset CloudFront, Cloudflare or custom CDN URL has no
\* entry in img-src or connect-src and a set one is entered as it is; for an
\* unset Supabase URL the wildcard origin https://*.supabase.co (and its
\* wss:// twin in connect-src) is entered in place of the project's origin,
\* and for an unset Sanity project id https://*.sanity.io in place of the
\* project's API host
C16_OptionalOrigins ==
    hdr.kind = "composed" =>
        /\ \A v \in CdnVars :
               EntriesOf(v) = IF Truthy(env.origins[v])
                              THEN {[from |-> v, src |-> env.origins[v]]}
                              ELSE {}
        /\ {d.src : d \in EntriesOf("SUPABASE")} =
               IF Truthy(env.origins["SUPABASE"])
               THEN {<<"https://", "abc.supabase.co">>, <<"wss://", "abc.supabase.co">>}
               ELSE {<<"https://", "*.", "supabase.co">>,
                     <<"wss://", "*.", "supabase.co">>}
        /\ {d.src : d \in EntriesOf("SANITY")} =
               IF Truthy(env.origins["SANITY"])
               THEN {<<"https://", "proj1", ".api.sanity.io">>}
               ELSE {<<"https://", "*.", "sanity.io">>}

\* C16 witness: with only the Supabase URL set, the bundle has the
\* project's origin, no CDN entry, and the Sanity wildcard
C16_Witness ==
    /\ hdr.kind = "composed"
    /\ Truthy(env.origins["SUPABASE"])
    /\ \A v \in OptionalVars \ {"SUPABASE"} : ~Truthy(env.origins[v])
    /\ \A v \in CdnVars : EntriesOf(v) = {}
    /\ <<"https://", "abc.supabase.co">> \in Srcs(hdr.headers.csp.connectSrc)
    /\ <<"https://", "*.", "sanity.io">> \in Srcs(hdr.headers.csp.connectSrc)

(***************************************************************************)
(* The pass of the middleware with its nonce and a stage that may throw    *)
(***************************************************************************)
\* a request goes through middleware(request); throwsAt is the call that
\* throws in this pass, if the pass gets to it
MwPass ==
    /\ pass.kind = "none"
    /\ \E req \in PassRequests, cx \in Contexts, newToken \in GenTokens,
          n \in Nonces, throwsAt \in Stages \cup {"none"} :
        LET out   == middleware(req, cookies, cx, buckets, now, newToken)
            tried == middlewareTry(req, cookies, cx, buckets, now, newToken,
                                   <<n, OtherNonce(n)>>, throwsAt, env)
            r     == middlewareCatch(tried)
        IN
        /\ ~callsValidateToken(req) => (cx = "rw" /\ newToken = TokenNames[1])
        /\ (underApi(req.path) /\ now < buckets[req.clientId].resetTime)
               => buckets[req.clientId].count < 2 * RateLimit
        /\ throwsAt # "none" => stageReached(throwsAt, req, out)
        /\ cookies' = r.cookies
        /\ buckets' = r.buckets
        /\ pass' = [kind |-> "answered", req |-> req, nonce |-> n,
                    throwsAt |-> throwsAt, outcome |-> r.outcome,
                    status |-> r.status, body |-> r.body,
                    forwarded |-> r.forwarded, headerNames |-> r.headerNames,
                    channels |-> r.channels, generateCalls |-> r.generateCalls]
        /\ UNCHANGED <<isProduction, ctx, lastOp, now, mw, act, env, hdr, more>>

\* the response leaves; the next request can come
PassDone ==
    /\ pass.kind = "answered"
    /\ pass' = PassIdle
    /\ UNCHANGED <<core, env, hdr, more>>

NextPass ==
    \/ MwPass
    \/ PassDone
    \/ (pass.kind = "none" /\ PageIssuesToken)

SpecPass == Init /\ [][NextPass]_vars

(***************************************************************************)
(* Properties of the pass                                                  *)
(***************************************************************************)
\* the nonces embedded in the Content-Security-Policy of the response
CspNonces ==
    {n \in Nonces : <<"'nonce-", n, "'">> \in Srcs(pass.channels.scriptSrc)}

\* C11: a pass calls CSPNonce.generate() exactly once, and on a forwarded
\* request the x-nonce request header, the csp-nonce cookie and the nonce in
\* the Content-Security-Policy header are all that one generated value
C11_NonceConsistent ==
    pass.kind = "answered" =>
        /\ pass.generateCalls = 1
        /\ pass.forwarded =>
               /\ pass.channels.xNonce = pass.nonce
               /\ pass.channels.nonceCookie = pass.nonce
               /\ CspNonces = {pass.nonce}

\* C11 witness: a POST to /api/posts with the stored token was forwarded
\* with the nonce on the three channels
C11_Witness ==
    /\ pass.kind = "answered"
    /\ pass.forwarded
    /\ pass.req.method = "POST"
    /\ pass.req.path = <<"/", "api", "/", "posts">>
    /\ pass.channels.xNonce \in Nonces
    /\ pass.channels.nonceCookie = pass.channels.xNonce
    /\ CspNonces = {pass.channels.xNonce}

\* C12: whichever call of the pass throws, the middleware returns (nothing
\* is thrown to the framework) a 500 whose body is exactly the fixed
\* MIDDLEWARE_ERROR object and which carries X-Content-Type-Options,
\* X-Frame-Options and X-XSS-Protection, and the request is not forwarded
C12_ErrorResponse ==
    (pass.kind = "answered" /\ pass.throwsAt # "none") =>
        /\ pass.outcome = "returned"
        /\ pass.status = 500
        /\ pass.body = [error |-> "Internal server error",
                        code  |-> "MIDDLEWARE_ERROR"]
        /\ {"X-Content-Type-Options", "X-Frame-Options", "X-XSS-Protection"}
               \subseteq pass.headerNames
        /\ ~pass.forwarded
        /\ pass.channels.xNonce = Null

\* C12 witness: the security-event logging of a refused /api/ request threw
\* and the pass answered 500
C12_Witness ==
    /\ pass.kind = "answered"
    /\ pass.throwsAt = "logging"
    /\ buckets[pass.req.clientId].count > RateLimit
    /\ pass.status = 500
    /\ pass.outcome = "returned"

(***************************************************************************)
(* The CSRF guard on a faulty runtime                                      *)
(***************************************************************************)
\* the code runs on another runtime
RuntimeChanges ==
    \E cr \in CryptoStates :
        /\ crypto' = cr
        /\ crypto' # crypto
        /\ lastOp' = NoOp
        /\ UNCHANGED <<isProduction, cookies, ctx, now, buckets, mw, act, pass, env, hdr, cacheVars, rest, store>>

\* validateToken(submittedToken) on the current runtime
FaultValidateToken ==
    \E s \in Submittable \cup {Null}, newToken \in GenTokens :
        LET v == validateTokenOn(crypto, cookies, ctx, s, newToken) IN
        /\ cookies' = v.cookies
        /\ lastOp' = Call("validateToken", s, v.outcome)
        /\ UNCHANGED <<isProduction, ctx, now, buckets, mw, act, pass, env, hdr, crypto, cacheVars, rest, store>>

NextFault ==
    \/ RuntimeChanges
    \/ CsrfNewRequest
    \/ CookieLost
    \/ CsrfSetToken
    \/ FaultValidateToken

SpecFault == Init /\ [][NextFault]_vars

\* an internal call of the last validateToken threw: the cookie read, the
\* store of the recovery token, generateToken, or the digest computation
InternalError ==
    /\ lastOp.arg \notin {Null, ""}
    /\ \/ ctx = "none"
       \/ ctx = "ro" /\ StoredToken(lastOp.before) = Null
       \/ crypto = "noUUID" /\ StoredToken(lastOp.before) = Null
       \/ crypto = "noSubtle" /\ ctx # "none" /\ StoredToken(lastOp.before) # Null

\* C13: validateToken never throws to its caller, and when reading the
\* cookies, storing the recovery token, generating it or computing the
\* digests throws, it returns false
C13_FailClosed ==
    lastOp.op = "validateToken" =>
        /\ lastOp.result \in {"true", "false"}
        /\ InternalError => lastOp.result = "false"

\* C13 witness: the submitted token equals the stored one, the digest
\* computation throws, and validateToken returned false
C13_Witness ==
    /\ lastOp.op = "validateToken"
    /\ crypto = "noSubtle"
    /\ ctx = "rw"
    /\ lastOp.arg \in GenTokens
    /\ lastOp.arg = StoredToken(lastOp.before)
    /\ lastOp.result = "false"

(***************************************************************************)
(* The cache as a state machine: reads of one cached function, the writes  *)
(* of the post, expiry of entries and restarts of the server process       *)
(***************************************************************************)
\* number of database writes a behaviour makes
MaxWrites == 2

\* a browser session opens: a page render issues its CSRF token, and the
\* behaviour follows one cached function of lib/query.ts from here on
Follow ==
    /\ fn = "none"
    /\ fn' \in DOMAIN queryCached
    /\ cookies' = getOrCreateToken(cookies, "rw", TokenNames[1], TokenNames[1]).cookies
    /\ UNCHANGED <<isProduction, ctx, lastOp, now, buckets, mw, act,
                   pass, env, hdr, crypto, db, dataCache, memo, ev, writes, rest, store>>

\* the event a write leaves behind
WriteEvent(name, s, outcome, ran) ==
    [kind |-> "write", name |-> name, userId |-> Null,
     role |-> IF ran.steps # <<>> THEN roleOf(s) ELSE Null,
     outcome |-> outcome, steps |-> ran.steps, tags |-> ran.tags,
     dbBefore |-> db, value |-> <<>>, source |-> Null,
     cacheTouched |-> ran.tags \cap allTags(fn) # {},
     trail |-> IF name = "updatePostAction" /\ outcome = "ok" /\ ev.trail # "none"
               THEN "updated" ELSE ev.trail]

\* the state after an action's body ran
Written(name, s, ran) ==
    /\ db' = ran.db
    /\ writes' = IF ran.db # db THEN writes + 1 ELSE writes
    /\ dataCache' = revalidateCache(ran.tags, fn, dataCache)
    /\ ev' = WriteEvent(name, s, ran.outcome, ran)
    /\ store' = IF name = "deletePostAction" /\ ran.steps # <<>>
                THEN deleted(store, {})
                ELSE [store EXCEPT !.was = mediaOf(store)]
    /\ UNCHANGED memo

\* one call of createPostAction or updatePostAction with an isPremium box
\* out of Premiums: the CSRF wrapper, then the body
FormPostWriteOf(Premiums) ==
    \E name \in PostWriteActions \cap wrappedActions, hasFormData \in BOOLEAN,
       token \in {Null, TokenNames[1], TokenNames[2]} :
        LET gate == withCSRFProtection(hasFormData, token, cookies, ctx, TokenNames[1]) IN
        /\ fn # "none"
        /\ writes < MaxWrites
        /\ name = "createPostAction" => ~db.exists
        /\ cookies' = gate.cookies
        /\ IF gate.runs
           THEN \E s \in Sessions, checksPass \in BOOLEAN, publish \in BOOLEAN,
                   premium \in Premiums, content \in Contents,
                   linkFails \in BOOLEAN :
                    /\ s = "none" \/ ~checksPass =>
                            ~publish /\ ~premium /\ content = "a" /\ ~linkFails
                    /\ Written(name, s, postAction(name, s, checksPass, publish, premium, content, linkFails, db))
           ELSE /\ ev' = WriteEvent(name, "none", "csrf", refused(db))
                /\ UNCHANGED <<db, dataCache, memo, writes, store>>
        /\ UNCHANGED <<isProduction, ctx, lastOp, now, buckets, mw, act,
                       pass, env, hdr, crypto, fn, rest>>

\* one call of createPostAction or updatePostAction for a post that is not
\* premium
FormPostWrite == FormPostWriteOf({FALSE})

\* one call of a post action that is exported without a wrapper
PostWrite ==
    \E name \in PostWriteActions \ wrappedActions, s \in Sessions,
       checksPass \in BOOLEAN :
        /\ fn # "none"
        /\ writes < MaxWrites
        /\ Written(name, s, postAction(name, s, checksPass, FALSE, FALSE, Null, FALSE, db))
        /\ UNCHANGED <<core, pass, env, hdr, crypto, fn, rest>>

\* one call of toggleFavoriteAction
ToggleFavorite ==
    \E s \in Readers, checksPass \in BOOLEAN :
        /\ fn # "none"
        /\ writes < MaxWrites
        /\ Written("toggleFavoriteAction", s, toggleFavoriteAction(s, checksPass, db))
        /\ UNCHANGED <<core, pass, env, hdr, crypto, fn, rest>>

\* one call of toggleBookmarkAction
ToggleBookmark ==
    \E s \in Readers, checksPass \in BOOLEAN :
        /\ fn # "none"
        /\ writes < MaxWrites
        /\ Written("toggleBookmarkAction", s, toggleBookmarkAction(s, checksPass, db))
        /\ UNCHANGED <<core, pass, env, hdr, crypto, fn, rest>>

\* the event a read leaves behind
ReadEvent(name, userId, r) ==
    [kind |-> "read", name |-> name, userId |-> userId, role |-> Null,
     outcome |-> "ok", steps |-> <<>>, tags |-> {}, dbBefore |-> db,
     value |-> r.value, source |-> r.source,
     cacheTouched |-> r.source # "db" \/ r.dataCache # dataCache \/ r.memo # memo,
     trail |-> IF name = "getPaginated" /\ userId = Null
               THEN (IF ev.trail = "updated" THEN "reread" ELSE "populated")
               ELSE ev.trail]

\* the state after a read
Answered(name, userId, r) ==
    /\ dataCache' = r.dataCache
    /\ memo' = r.memo
    /\ ev' = ReadEvent(name, userId, r)
    /\ ev' # ev
    /\ UNCHANGED <<core, pass, env, hdr, crypto, db, fn, writes, rest, store>>

\* a page or route reads through Queries.posts
QueriesRead ==
    \E method \in DOMAIN QueriesPosts, userId \in UserIdArgs :
        /\ QueriesPosts[method].cached = fn
        /\ Answered(method, userId, Queries(method, userId, db, dataCache, memo))

\* a page or route calls a cached function that Queries.posts does not use
CachedRead ==
    /\ fn \in {"getCachedPostById", "getCachedPostBySlug"}
    /\ Answered(fn, Null, createCachedFunction(fn, Null, db, dataCache, memo))

\* an entry is older than its revalidate period
CacheExpires ==
    \E u \in UserIdArgs :
        /\ dataCache[u].hit
        /\ dataCache' = [dataCache EXCEPT ![u] = Miss]
        /\ UNCHANGED <<core, pass, env, hdr, crypto, db, memo, ev, fn, writes, rest, store>>

\* the server process restarts: its modules are loaded again
ProcessRestarts ==
    /\ memo # NoMemo
    /\ memo' = NoMemo
    /\ UNCHANGED <<core, pass, env, hdr, crypto, db, dataCache, ev, fn, writes, rest, store>>

NextCache ==
    \/ Follow
    \/ FormPostWrite
    \/ PostWrite
    \/ ToggleFavorite
    \/ ToggleBookmark
    \/ QueriesRead
    \/ CachedRead
    \/ CacheExpires
    \/ ProcessRestarts

SpecCache == Init /\ [][NextCache]_vars

\* the last event is a call of one of the seven post actions
PostWriteEvent == ev.kind = "write" /\ ev.name \in PostWriteActions
\* the tags the contract names: listing, both single-item tags, categories,
\* search results, user posts, analytics
ContractTags ==
    {"posts", "post-by-id", "post-by-slug", "categories", "search-results",
     "user-posts", "analytics"}
\* the call ended before its database write: no session, a refusal by the
\* CSRF wrapper or by one of the body's checks
FailedBeforeWrite == ev.outcome \in {"csrf", "redirect", "refused"}

C18_WritesInvalidateReads ==
    ev.kind = "write" /\ ev.outcome = "ok" =>
        \A f \in ReadFns :
            PostQueries(f, ev.dbBefore, Null) # PostQueries(f, db, Null)
                => ev.tags \cap allTags(f) # {}

\* C19: the anonymous listing was read through Queries.posts.getPaginated,
\* then a post was updated and the update's tags were invalidated; the next
\* anonymous listing read returns the listing as the database has it now
C19_NoStaleListing ==
    (/\ ev.kind = "read"
     /\ ev.name = "getPaginated"
     /\ ev.userId = Null
     /\ ev.trail = "reread")
        => ev.value = PostQueries("getCachedPosts", db, Null)

\* the last event is a read through Queries.posts
QueriesReadEvent == ev.kind = "read" /\ ev.name \in DOMAIN QueriesPosts
\* no row of a stored result carries a user's own marks
Impersonal(entry) ==
    \A i \in 1..Len(entry.value) :
        ~entry.value[i].isFavorited /\ ~entry.value[i].isBookmarked

\* C20: a read through Queries.posts with a userId, and every getById and
\* getBySlug, is answered by the direct query on the database as it is now
\* and leaves the data cache and the memoize Map as they were; no entry is
\* stored under a userId and no stored result carries a user's marks
C20_UserReadsBypassCache ==
    /\ (QueriesReadEvent
            /\ (userIdTruthy(ev.userId) \/ QueriesPosts[ev.name].direct))
        => /\ ev.source = "db"
           /\ ~ev.cacheTouched
           /\ ev.value = PostQueries(fn, db, ev.userId)
    /\ \A u \in UserIdArgs :
        /\ userIdTruthy(u) => ~dataCache[u].hit /\ ~memo[u].hit
        /\ Impersonal(dataCache[u])
    /\ \A k \in MemoKeys : Impersonal(memo[k])

\* user u1 reads the listing while an anonymous result is cached, and gets
\* a row with their own favorite mark that the cached result does not have
C20_Witness ==
    /\ QueriesReadEvent
    /\ ev.name = "getPaginated"
    /\ ev.userId = "u1"
    /\ dataCache[Null].hit
    /\ Len(ev.value) = 1
    /\ ev.value[1].isFavorited
    /\ ev.value # dataCache[Null].value

(***************************************************************************)
(* The post route as a state machine: requests to /api/posts/[id] between  *)
(* the writes of the post                                                  *)
(***************************************************************************)
\* a browser session opens: a page render issues its CSRF token, and the
\* behaviour follows getPostById of lib/content, which the route calls
RouteFollow ==
    /\ fn = "none"
    /\ fn' = "getPostById"
    /\ cookies' = getOrCreateToken(cookies, "rw", TokenNames[1], TokenNames[1]).cookies
    /\ UNCHANGED <<isProduction, ctx, lastOp, now, buckets, mw, act,
                   pass, env, hdr, crypto, db, dataCache, memo, ev, writes, rest, store>>

\* one GET or HEAD request to the route
ApiRequest ==
    /\ api.kind = "none"
    /\ fn = "getPostById"
    /\ \E isHeadRequest \in BOOLEAN, path \in ApiPaths, user \in ApiUsers :
        LET read == createCachedFunction(fn, Null, db, dataCache, memo)
            resp == handlePostRequest(isHeadRequest, path, user, read.value, db)
        IN
        /\ dataCache' = read.dataCache
        /\ api' = [kind |-> IF isHeadRequest THEN "HEAD" ELSE "GET",
                   path |-> path, user |-> user, source |-> read.source,
                   status |-> resp.status, body |-> resp.body]
    /\ UNCHANGED <<core, pass, env, hdr, crypto, db, memo, ev, fn, writes, keys, mod, slugs, grid, mz, cs, store>>

\* the response was sent
ApiDone ==
    /\ api.kind # "none"
    /\ api' = ApiIdle
    /\ UNCHANGED <<core, pass, env, hdr, crypto, cacheVars, keys, mod, slugs, grid, mz, cs, store>>

NextRoute ==
    \/ RouteFollow
    \/ ApiRequest
    \/ ApiDone
    \/ api.kind = "none" /\ FormPostWriteOf(BOOLEAN)
    \/ api.kind = "none" /\ PostWrite
    \/ api.kind = "none" /\ ToggleFavorite
    \/ api.kind = "none" /\ ToggleBookmark
    \/ api.kind = "none" /\ CacheExpires

SpecRoute == Init /\ [][NextRoute]_vars

\* the last request was a GET
ApiGet == api.kind = "GET"

\* C21: the response to a signed-in user's GET /api/posts/[id] is the one
\* the route gives for the post as the database has it at that moment:
\* same status, same post
C21_FreshForUsers ==
    (ApiGet /\ api.user.signedIn) =>
        JsonResponse(api.status, api.body) =
            handlePostRequest(FALSE, api.path, api.user,
                              PostQueries("getPostById", db, Null), db)

\* C23: a GET /api/posts/[id] that returns a published premium post was
\* made by a premium user, an administrator or the post's author
C23_PremiumOnlyToEntitled ==
    (ApiGet /\ api.status = 200 /\ api.body[1].isPremium /\ api.body[1].isPublished)
        => \/ api.user.type = "PREMIUM"
           \/ api.user.role = "ADMIN"
           \/ api.user.signedIn /\ api.user.id = api.body[1].authorId

(***************************************************************************)
(* The key generators, applied to pairs of calls                           *)
(***************************************************************************)
\* two calls of one generator
KeyPair ==
    \E gen \in KeyGenerators :
        \E a \in KeyCalls(gen), b \in KeyCalls(gen) :
            /\ keys.gen = "none"
            /\ keys' = [gen |-> gen, a |-> a, b |-> b,
                        ka |-> cacheKeyOf(gen, a), kb |-> cacheKeyOf(gen, b)]
            /\ UNCHANGED <<core, pass, env, hdr, crypto, cacheVars, api, mod, slugs, grid, mz, cs, store>>

NextKeys == KeyPair

SpecKeys == Init /\ [][NextKeys]_vars

\* the two calls ask the database for different things
DifferentQueries == queryOf(keys.gen, keys.a) # queryOf(keys.gen, keys.b)

\* C22: two calls of one key generator that ask the database for different
\* things get different keys
C22_KeysCollisionFree ==
    (keys.gen # "none" /\ DifferentQueries) => keys.ka # keys.kb

\* the actions that set isPublished and status
LifecycleActions ==
    { "createPostAction", "updatePostAction", "approvePostAction",
      "rejectPostAction", "togglePostPublishAction" }
\* the last event is a call of one of them that wrote the post
LifecycleWrite ==
    ev.kind = "write" /\ ev.name \in LifecycleActions /\ ev.steps # <<>>

\* C24: a post is published exactly when its status is APPROVED; a create,
\* update, approve, reject or publish toggle that leaves the post published
\* was run by an administrator, and one run by a USER leaves the post
\* unpublished with status PENDING_APPROVAL
C24_PublishedIffApproved ==
    /\ db.exists => (db.isPublished <=> db.status = "APPROVED")
    /\ LifecycleWrite =>
        /\ db.isPublished => ev.role = "ADMIN"
        /\ ev.role = "USER" =>
                ~db.isPublished /\ db.status = "PENDING_APPROVAL"

\* an administrator approves the pending post of a user: it is published
C24_Witness ==
    /\ LifecycleWrite
    /\ ev.name = "approvePostAction"
    /\ ev.role = "ADMIN"
    /\ ev.dbBefore.status = "PENDING_APPROVAL"
    /\ ~ev.dbBefore.isPublished
    /\ db.isPublished
    /\ db.status = "APPROVED"

(***************************************************************************)
(* Moderation as a state machine: approve and reject calls of several      *)
(* requests, interleaved between their database statements                 *)
(***************************************************************************)
\* a request calls approvePostAction or rejectPostAction and runs it up to
\* the await of prisma.post.update
ModerationBegins ==
    \E r \in Callers, name \in ModerationActions, s \in Sessions,
       checksPass \in BOOLEAN :
        LET next == moderationChecks(name, s, checksPass, db) IN
        /\ mod[r].pc = "idle"
        /\ writes < MaxWrites
        /\ IF next = "update"
           THEN /\ mod' = [mod EXCEPT ![r] = [pc |-> "update", name |-> name,
                                              session |-> s, seen |-> db.status]]
                /\ UNCHANGED ev
           ELSE /\ ev' = WriteEvent(name, s, next, refused(db))
                /\ UNCHANGED mod
        /\ UNCHANGED <<core, pass, env, hdr, crypto, db, dataCache, memo, fn,
                       writes, api, keys, slugs, grid, mz, cs, store>>

\* the request's prisma.post.update runs, then revalidateCache
ModerationUpdates ==
    \E r \in Callers :
        LET ran == moderationUpdate(mod[r].name, db) IN
        /\ mod[r].pc = "update"
        /\ db' = ran.db
        /\ writes' = IF ran.db # db THEN writes + 1 ELSE writes
        /\ dataCache' = revalidateCache(ran.tags, fn, dataCache)
        /\ ev' = WriteEvent(mod[r].name, mod[r].session, ran.outcome, ran)
        /\ mod' = [mod EXCEPT ![r] = IdleCall]
        /\ UNCHANGED <<core, pass, env, hdr, crypto, memo, fn, api, keys, slugs, grid, mz, cs, store>>

NextModerate ==
    \/ ModerationBegins
    \/ ModerationUpdates

SpecModerate == Init /\ [][NextModerate]_vars

\* C25: approvePostAction and rejectPostAction write a post only while its
\* status is PENDING_APPROVAL: the status the row has at the moment of the
\* update is the one the call read
C25_WritesOnlyPending ==
    (ev.kind = "write" /\ ev.name \in ModerationActions /\ ev.steps # <<>>)
        => ev.dbBefore.status = "PENDING_APPROVAL"

(***************************************************************************)
(* Deletion as a state machine: deletePostAction calls with failing        *)
(* storage deletions and failing database statements                       *)
(***************************************************************************)
\* one call of deletePostAction
DeletePost ==
    \E s \in Sessions, checksPass \in BOOLEAN, failing \in SUBSET PostFiles,
       mediaThrows \in BOOLEAN, postThrows \in BOOLEAN :
        LET out == deletePostAction(s, checksPass, failing, mediaThrows,
                                    postThrows, db, store) IN
        /\ db' = out.ran.db
        /\ writes' = IF out.ran.db # db THEN writes + 1 ELSE writes
        /\ dataCache' = revalidateCache(out.ran.tags, fn, dataCache)
        /\ ev' = WriteEvent("deletePostAction", s, out.ran.outcome, out.ran)
        /\ store' = out.store
        /\ UNCHANGED <<core, pass, env, hdr, crypto, memo, fn, rest>>

NextDelete == DeletePost

SpecDelete == Init /\ [][NextDelete]_vars

\* the last event is a deletePostAction call
DeleteCall == ev.kind = "write" /\ ev.name = "deletePostAction"

\* C26: deletePostAction is all-or-nothing: a call that did not end well
\* leaves the post row, the media rows and the files as they were, and files
\* leave storage only in a call that removes the post row
C26_DeleteAllOrNothing ==
    DeleteCall =>
        /\ ev.outcome # "ok" =>
                /\ db = ev.dbBefore
                /\ store.media = store.was.media
                /\ store.files = store.was.files
        /\ store.files # store.was.files => ev.dbBefore.exists /\ ~db.exists

(***************************************************************************)
(* Slugs as a state machine: create and update calls with one title,       *)
(* interleaved between the uniqueness loop and the write                   *)
(***************************************************************************)
\* posts of other authors hold the first n candidates of the title
OthersHold ==
    \E n \in {1, SlugLimit - 1, SlugLimit} :
        /\ slugs = SlugsIdle
        /\ slugs' = [slugs EXCEPT !.others = n]
        /\ UNCHANGED <<core, pass, env, hdr, crypto, cacheVars, api, keys, mod, grid, mz, cs, store>>

\* a caller starts createPostAction (its post is not stored) or
\* updatePostAction and runs it through the uniqueness loop
SlugBegins ==
    \E c \in SlugCallers, kind \in {"createPostAction", "updatePostAction"} :
        LET loop == uniqueSlug(slugs, kind, PostOf[c]) IN
        /\ slugs.calls[c].pc = "idle"
        /\ kind = "createPostAction" <=> slugs.own[PostOf[c]] = NoSlug
        /\ slugs' =
            IF loop.thrown
            THEN [slugs EXCEPT !.last = [caller |-> c, kind |-> kind,
                                         outcome |-> "failed", slug |-> NoSlug,
                                         probes |-> loop.probes, was |-> slugs.own]]
            ELSE [slugs EXCEPT !.calls[c] = [pc |-> "write", kind |-> kind,
                                             slug |-> loop.slug,
                                             probes |-> loop.probes]]
        /\ UNCHANGED <<core, pass, env, hdr, crypto, cacheVars, api, keys, mod, grid, mz, cs, store>>

\* the caller's prisma.post.create or prisma.post.update runs, then
\* revalidateCache when it did not throw
SlugWrites ==
    \E c \in SlugCallers :
        LET call == slugs.calls[c]
            out == slugWrite(slugs, call.kind, PostOf[c], call.slug) IN
        /\ call.pc = "write"
        /\ slugs' = [slugs EXCEPT
                        !.own = out.own,
                        !.calls[c] = SlugIdleCall,
                        !.last = [caller |-> c, kind |-> call.kind,
                                  outcome |-> IF out.ok THEN "ok" ELSE "failed",
                                  slug |-> call.slug, probes |-> call.probes,
                                  was |-> slugs.own]]
        /\ dataCache' = IF out.ok THEN revalidateCache(postWriteTags, fn, dataCache)
                        ELSE dataCache
        /\ UNCHANGED <<core, pass, env, hdr, crypto, db, memo, ev, fn, writes,
                       api, keys, mod, grid, mz, cs, store>>

NextSlugs ==
    \/ OthersHold
    \/ SlugBegins
    \/ SlugWrites

SpecSlugs == Init /\ [][NextSlugs]_vars

\* the posts that hold candidate k, the posts of other authors as one
SlugHolders(k) ==
    Cardinality({p \in SlugPosts : slugs.own[p] = k})
        + (IF k < slugs.others THEN 1 ELSE 0)

\* C27: no two posts share a slug, a call stores its post under the slug it
\* settled on or leaves the table as it was, and a call makes at most
\* SlugLimit findFirst probes
C27_SlugsUnique ==
    /\ \A p \in SlugPosts : slugs.own[p] # NoSlug => SlugHolders(slugs.own[p]) = 1
    /\ slugs.last.outcome = "ok" =>
            /\ slugs.own[PostOf[slugs.last.caller]] = slugs.last.slug
            /\ \A p \in SlugPosts \ {PostOf[slugs.last.caller]} :
                    slugs.own[p] = slugs.last.was[p]
    /\ slugs.last.outcome = "failed" => slugs.own = slugs.last.was
    /\ slugs.last.probes <= SlugLimit
    /\ \A c \in SlugCallers : slugs.calls[c].probes <= SlugLimit

\* two calls settled on the same slug and the index refused the second; and
\* a loop gave up after SlugLimit probes
C27_Witness ==
    /\ slugs.last.outcome = "failed"
    /\ slugs.last.slug # NoSlug
    /\ \E p \in SlugPosts : slugs.own[p] = slugs.last.slug

C27_WitnessLimit ==
    /\ slugs.last.outcome = "failed"
    /\ slugs.last.probes = SlugLimit

(***************************************************************************)
(* The grid as a state machine: observer events, clicks, settled requests  *)
(* and search-parameter changes in any order                               *)
(***************************************************************************)
\* the observer reports that the loading row intersects
Intersects ==
    /\ Len(grid.inFlight) < MaxInFlight
    /\ grid' = handleIntersection(grid)
    /\ UNCHANGED <<core, pass, env, hdr, crypto, cacheVars, api, keys, mod, slugs, mz, cs, store>>

\* the user clicks Load More Posts or Try Again
Clicks ==
    /\ buttonEnabled(grid)
    /\ Len(grid.inFlight) < MaxInFlight
    /\ grid' = loadMorePosts(grid)
    /\ UNCHANGED <<core, pass, env, hdr, crypto, cacheVars, api, keys, mod, slugs, mz, cs, store>>

\* a request in flight settles
Settles ==
    \E i \in 1..Len(grid.inFlight), outcome \in {"ok", "fallback", "failed"} :
        LET r == grid.inFlight[i] IN
        /\ grid' = [settled(grid, r, outcome, r.page < MaxPage) EXCEPT
                        !.inFlight = Without(grid.inFlight, i)]
        /\ UNCHANGED <<core, pass, env, hdr, crypto, cacheVars, api, keys, mod, slugs, mz, cs, store>>

\* the search parameters change and the page renders the new search
SearchChanges ==
    \E initialHasNextPage \in BOOLEAN :
        /\ grid.search < MaxSearches
        /\ grid' = resetOnSearch(grid, initialHasNextPage)
        /\ UNCHANGED <<core, pass, env, hdr, crypto, cacheVars, api, keys, mod, slugs, mz, cs, store>>

NextGrid ==
    \/ Intersects
    \/ Clicks
    \/ Settles
    \/ SearchChanges

SpecGrid == Init /\ [][NextGrid]_vars

\* no two page requests are in flight together
OneInFlight == Len(grid.inFlight) <= 1
\* no page of a search was requested while an earlier request for it was in
\* flight or had succeeded
NeverTwice == ~grid.twice

\* C28: at most one page request is in flight, and no page of a search is
\* requested again unless its earlier request failed
C28_OneRequestAtATime ==
    /\ OneInFlight
    /\ NeverTwice

(***************************************************************************)
(* memoize as a state machine: calls and settling promises in any order    *)
(***************************************************************************)
\* the memoized function is called
MemoCall ==
    \E k \in CallKeys :
        /\ mz.made < MaxPromises
        /\ mz' = memoized(mz, k)
        /\ UNCHANGED <<core, pass, env, hdr, crypto, cacheVars, api, keys, mod,
                       slugs, grid, cs, store>>

\* a pending promise of fn is fulfilled or rejects
MemoSettles ==
    \E id \in PromiseIds, ok \in BOOLEAN :
        /\ mz.promises[id].state = "pending"
        /\ mz' = IF ok THEN fulfilled(mz, id) ELSE rejected(mz, id)
        /\ UNCHANGED <<core, pass, env, hdr, crypto, cacheVars, api, keys, mod,
                       slugs, grid, cs, store>>

NextMemo ==
    \/ MemoCall
    \/ MemoSettles

SpecMemo == Init /\ [][NextMemo]_vars

\* no entry of the Map holds a promise that rejected: the next call with its
\* key runs fn again
NoRejectedEntry ==
    \A i \in 1..Len(mz.cache) :
        mz.promises[mz.cache[i].promise].state # "rejected"

\* C29: a rejecting promise takes its entry out of the Map, and takes out no
\* entry but the one its own call stored
C29_RemovesOwnEntryOnly ==
    /\ NoRejectedEntry
    /\ mz.last.kind = "rejected" =>
            mz.last.removed \in {NoPromise, mz.last.promise}

(***************************************************************************)
(* cacheStore as a state machine: one key, set, get and del over time,     *)
(* with a Redis server that comes and goes                                 *)
(***************************************************************************)
\* Date.now() of the store's clock
StoreNow == cs.ticks * StoreTickMs

\* lib/cache.ts is loaded: the environment decides the store
StoreLoads ==
    \E redisUrl \in BOOLEAN, runtime \in {"nodejs", "edge"}, ioredis \in BOOLEAN :
        /\ cs.store = "none"
        /\ selectStore(redisUrl, env) = "memory" => runtime = "nodejs" /\ ioredis
        /\ cs' = [cs EXCEPT !.store = selectStore(redisUrl, env),
                            !.redisUrl = redisUrl, !.runtime = runtime,
                            !.ioredis = ioredis]
        /\ UNCHANGED <<core, pass, env, hdr, crypto, cacheVars, api, keys, mod,
                       slugs, grid, mz, store>>

StoreSets ==
    \E value \in StoreValues, ttl \in StoreTtls :
        /\ cs.store # "none"
        /\ cs' = storeSet(cs, env, value, ttl, StoreNow)
        /\ UNCHANGED <<core, pass, env, hdr, crypto, cacheVars, api, keys, mod,
                       slugs, grid, mz, store>>

StoreGets ==
    /\ cs.store # "none"
    /\ cs' = storeGet(cs, env, StoreNow)
    /\ UNCHANGED <<core, pass, env, hdr, crypto, cacheVars, api, keys, mod,
                   slugs, grid, mz, store>>

StoreDels ==
    /\ cs.store # "none"
    /\ cs' = storeDel(cs, env, StoreNow)
    /\ UNCHANGED <<core, pass, env, hdr, crypto, cacheVars, api, keys, mod,
                   slugs, grid, mz, store>>

\* half a second passes
StoreTicks ==
    /\ cs.store # "none"
    /\ cs.ticks < MaxStoreTicks
    /\ cs' = [cs EXCEPT !.ticks = @ + 1]
    /\ UNCHANGED <<core, pass, env, hdr, crypto, cacheVars, api, keys, mod,
                   slugs, grid, mz, store>>

\* the Redis server becomes unreachable or reachable again
RedisFlips ==
    /\ cs.store = "redis"
    /\ cs' = [cs EXCEPT !.reachable = ~@]
    /\ UNCHANGED <<core, pass, env, hdr, crypto, cacheVars, api, keys, mod,
                   slugs, grid, mz, store>>

NextStore ==
    \/ StoreLoads
    \/ StoreSets
    \/ StoreGets
    \/ StoreDels
    \/ StoreTicks
    \/ RedisFlips

SpecStore == Init /\ [][NextStore]_vars

\* the round trip for the last get
RoundTrip ==
    cs.last.op = "get" =>
        /\ cs.told.op = "set" /\ cs.last.at < cs.told.until =>
                cs.last.result = cs.told.value
        /\ cs.told.op = "set" /\ cs.last.at > cs.told.until =>
                cs.last.result = Null
        /\ cs.told.op = "del" => cs.last.result = Null

\* C30: get returns the value of the last set until it expires and null
\* after a del or the expiry, whichever store is selected and whether or not
\* Redis is there
C30_StoreRoundTrip == RoundTrip

\* the round trip when the memory store is the one selected
RoundTripWhenBacked ==
    (cs.store = "memory") => RoundTrip

====
